---- MODULE Spec2Model ----
(***************************************************************************)
(* NetworkVisualizer: alias resolution by the FEC importers, the          *)
(* normalization functions, the conflict detector, the timeline aggregator *)
(* and the network builder, modelled from the TypeScript                   *)
(* sources (server/api/fec-api.ts, server/api/data-sync.ts,                *)
(* server/api/data-mappers.ts, server/storage.ts, server/routes.ts and the *)
(* routes module unnamed/part_015; the tables are those of the migration   *)
(* unnamed/part_013).                                                      *)
(*                                                                         *)
(* Strings that the code cuts apart (candidate names) are sequences of     *)
(* lexical tokens: words, "," and " ".  Dates are the strings the tables   *)
(* hold; GetTime gives what new Date(s).getTime() gives, in ticks of       *)
(* 1/TicksPerDay day.                                                      *)
(***************************************************************************)
EXTENDS Integers, Sequences, FiniteSets, TLC

VARIABLES politicians, politicianAliases, votes, contributions,
          stockTransactions, runs, resolved, response,
          pipelineRuns, activePipelines, tasks,
          timelineQuery, existedBefore

vars == <<politicians, politicianAliases, votes, contributions,
          stockTransactions, runs, resolved, response,
          pipelineRuns, activePipelines, tasks,
          timelineQuery, existedBefore>>

\* the infinite query of the MoneyTimeline component and, for reference,
\* the items the politician had when its first page was requested
clientVars == <<timelineQuery, existedBefore>>

\* the pipeline_runs table, the activePipelines map of data-sync.ts and the
\* background tasks its trigger handlers have scheduled
pipelineVars == <<pipelineRuns, activePipelines, tasks>>

(***************************************************************************)
(* Bounds of the model.                                                    *)
(***************************************************************************)
MaxPoliticians == 3
MaxRuns == 2
MaxMembers == 2
MaxVotes == 2
MaxContributions == 2
MaxTransactions == 2
MaxPipelines == 1
TicksPerDay == 2

\* SQL NULL / JavaScript undefined in a text column or a query parameter
Null == "NULL"

(***************************************************************************)
(* Helpers on sequences.                                                   *)
(***************************************************************************)
Range(s) == {s[i] : i \in DOMAIN s}

(***************************************************************************)
(* String.prototype.split / trim on token sequences.                       *)
(***************************************************************************)
RECURSIVE IndexOfFrom(_, _, _)
IndexOfFrom(s, sep, from) ==
  IF from + Len(sep) - 1 > Len(s) THEN 0
  ELSE IF SubSeq(s, from, from + Len(sep) - 1) = sep THEN from
  ELSE IndexOfFrom(s, sep, from + 1)

RECURSIVE Split(_, _)
Split(s, sep) ==
  LET i == IndexOfFrom(s, sep, 1)
  IN IF i = 0 THEN <<s>>
     ELSE <<SubSeq(s, 1, i - 1)>> \o Split(SubSeq(s, i + Len(sep), Len(s)), sep)

RECURSIVE TrimStart(_)
TrimStart(s) ==
  IF s # <<>> /\ Head(s) = " " THEN TrimStart(Tail(s)) ELSE s

RECURSIVE TrimEnd(_)
TrimEnd(s) ==
  IF s # <<>> /\ s[Len(s)] = " " THEN TrimEnd(SubSeq(s, 1, Len(s) - 1)) ELSE s

Trim(s) == TrimEnd(TrimStart(s))

(***************************************************************************)
(* What the FEC API returns (the environment).                             *)
(***************************************************************************)
FecCandidates ==
  { [candidate_id |-> "H0CA01", name |-> <<"SMITH", ",", " ", "JOHN">>,
     party_full |-> "DEMOCRATIC PARTY", party |-> "DEM", state |-> "CA"],
    [candidate_id |-> "S0NY02", name |-> <<"JANE", " ", "DOE">>,
     party_full |-> "", party |-> "REP", state |-> "NY"] }

CandidateIds == {c.candidate_id : c \in FecCandidates}

\* getCurrentCongressMembers: the house list followed by the senate list
MemberLists ==
  UNION {[1..n -> FecCandidates] : n \in 0..MaxMembers}

\* schedule A rows of a committee
FecDonations ==
  { [contributor_name |-> "ACME PAC", contribution_receipt_amount |-> "15000",
     contribution_receipt_date |-> "2023-06-01", contributor_occupation |-> "CEO"],
    [contributor_name |-> "", contribution_receipt_amount |-> "250000",
     contribution_receipt_date |-> "2023-03-01", contributor_occupation |-> ""] }

DonationLists == {<<>>} \cup {<<d>> : d \in FecDonations}

Today == "2023-06-01"

(***************************************************************************)
(* data-mappers.ts                                                         *)
(***************************************************************************)
partyMap ==
  [x \in {"DEM", "REP", "IND", "LIB", "GRE", "CON", "D", "R", "I", "L", "G"} |->
     CASE x \in {"DEM", "D"} -> "Democrat"
       [] x \in {"REP", "R"} -> "Republican"
       [] x \in {"IND", "I"} -> "Independent"
       [] x \in {"LIB", "L"} -> "Libertarian"
       [] x \in {"GRE", "G"} -> "Green"
       [] x = "CON" -> "Constitution"]

\* what every object literal inherits from Object.prototype: table[key] finds
\* these when the table has no own property of that name
ObjectPrototype ==
  [key \in {"constructor", "toString"} |->
     CASE key = "constructor" -> "function Object()"
       [] key = "toString" -> "function toString()"]

\* partyMap[partyCode] || partyCode
mapPartyAbbreviation(partyCode) ==
  IF partyCode \in DOMAIN partyMap THEN partyMap[partyCode]
  ELSE IF partyCode \in DOMAIN ObjectPrototype THEN ObjectPrototype[partyCode]
  ELSE partyCode

StateCodes ==
  {"AL", "AK", "AZ", "AR", "CA", "CO", "CT", "DE", "FL", "GA", "HI", "ID",
   "IL", "IN", "IA", "KS", "KY", "LA", "ME", "MD", "MA", "MI", "MN", "MS",
   "MO", "MT", "NE", "NV", "NH", "NJ", "NM", "NY", "NC", "ND", "OH", "OK",
   "OR", "PA", "RI", "SC", "SD", "TN", "TX", "UT", "VT", "VA", "WA", "WV",
   "WI", "WY", "DC"}

stateMap ==
  [x \in StateCodes |->
     CASE x = "AL" -> "Alabama" [] x = "AK" -> "Alaska"
       [] x = "AZ" -> "Arizona" [] x = "AR" -> "Arkansas"
       [] x = "CA" -> "California" [] x = "CO" -> "Colorado"
       [] x = "CT" -> "Connecticut" [] x = "DE" -> "Delaware"
       [] x = "FL" -> "Florida" [] x = "GA" -> "Georgia"
       [] x = "HI" -> "Hawaii" [] x = "ID" -> "Idaho"
       [] x = "IL" -> "Illinois" [] x = "IN" -> "Indiana"
       [] x = "IA" -> "Iowa" [] x = "KS" -> "Kansas"
       [] x = "KY" -> "Kentucky" [] x = "LA" -> "Louisiana"
       [] x = "ME" -> "Maine" [] x = "MD" -> "Maryland"
       [] x = "MA" -> "Massachusetts" [] x = "MI" -> "Michigan"
       [] x = "MN" -> "Minnesota" [] x = "MS" -> "Mississippi"
       [] x = "MO" -> "Missouri" [] x = "MT" -> "Montana"
       [] x = "NE" -> "Nebraska" [] x = "NV" -> "Nevada"
       [] x = "NH" -> "New Hampshire" [] x = "NJ" -> "New Jersey"
       [] x = "NM" -> "New Mexico" [] x = "NY" -> "New York"
       [] x = "NC" -> "North Carolina" [] x = "ND" -> "North Dakota"
       [] x = "OH" -> "Ohio" [] x = "OK" -> "Oklahoma"
       [] x = "OR" -> "Oregon" [] x = "PA" -> "Pennsylvania"
       [] x = "RI" -> "Rhode Island" [] x = "SC" -> "South Carolina"
       [] x = "SD" -> "South Dakota" [] x = "TN" -> "Tennessee"
       [] x = "TX" -> "Texas" [] x = "UT" -> "Utah"
       [] x = "VT" -> "Vermont" [] x = "VA" -> "Virginia"
       [] x = "WA" -> "Washington" [] x = "WV" -> "West Virginia"
       [] x = "WI" -> "Wisconsin" [] x = "WY" -> "Wyoming"
       [] x = "DC" -> "District of Columbia"]

\* stateMap[stateCode] || stateCode
normalizeStateCode(stateCode) ==
  IF stateCode \in DOMAIN stateMap THEN stateMap[stateCode]
  ELSE IF stateCode \in DOMAIN ObjectPrototype THEN ObjectPrototype[stateCode]
  ELSE stateCode

\* record.key || '' : a raw record may lack the property
OrEmpty(record, key) ==
  IF key \in DOMAIN record /\ record[key] # Null THEN record[key] ELSE ""

\* fecCandidate.name.split(', ') is a TypeError when there is no name
mapFecCandidateToPoliticianThrows(fecCandidate) ==
  "name" \notin DOMAIN fecCandidate

\* the record returned when the call does not throw
mapFecCandidateToPolitician(fecCandidate) ==
  LET nameParts == Split(fecCandidate.name, <<",", " ">>)
  IN [firstName |-> IF Len(nameParts) > 1 THEN nameParts[2] ELSE <<>>,
      lastName |-> nameParts[1],
      state |-> OrEmpty(fecCandidate, "state"),
      party |-> mapPartyAbbreviation(OrEmpty(fecCandidate, "party")),
      fecCandidateId |-> Null]

\* String(amount || '0'): JSON numbers and strings alike, by their text
mapFecDonationToContribution(fecDonation, politicianId) ==
  [politicianId |-> politicianId,
   organization |-> OrEmpty(fecDonation, "contributor_name"),
   amount |-> IF OrEmpty(fecDonation, "contribution_receipt_amount") = ""
              THEN "0" ELSE fecDonation.contribution_receipt_amount,
   contributionDate |->
     IF OrEmpty(fecDonation, "contribution_receipt_date") = ""
     THEN Today ELSE fecDonation.contribution_receipt_date,
   industry |-> OrEmpty(fecDonation, "contributor_occupation")]

(***************************************************************************)
(* Storage: the tables are sequences in insertion order; id is the serial  *)
(* primary key.                                                            *)
(***************************************************************************)
InsertRow(table, values) ==
  Append(table, [id |-> Len(table) + 1] @@ values)

getPolitician(id) == {p \in Range(politicians) : p.id = id}

(***************************************************************************)
(* importPoliticiansFromFec: one run per element of Runs; every await is a *)
(* step.                                                                   *)
(***************************************************************************)
Runs == 1..MaxRuns

IdleRun ==
  [pc |-> "idle", members |-> <<>>, i |-> 0, existingAlias |-> 0,
   newPolitician |-> 0, importedCount |-> 0, updatedCount |-> 0,
   errorCount |-> 0]

Member(r) == runs[r].members[runs[r].i]

\* the fields extracted from a member at the top of the loop body
MemberFields(member) ==
  LET parts == Split(member.name, <<",">>)
  IN [firstName |-> IF Len(parts) > 1 THEN Trim(parts[2]) ELSE <<>>,
      lastName |-> Trim(parts[1]),
      party |-> IF OrEmpty(member, "party_full") # ""
                THEN member.party_full ELSE OrEmpty(member, "party"),
      state |-> OrEmpty(member, "state"),
      fecCandidateId |-> member.candidate_id]

\* a lookup whose source tag never equals the stored one
AliasMatchesWrongSource(candidateId) ==
  {a \in Range(politicianAliases) : a.source = "FEC" /\ a.externalId = candidateId}

\* the where clause of the alias lookup
AliasMatches(candidateId) ==
  {a \in Range(politicianAliases) : a.source = "fec" /\ a.externalId = candidateId}

\* the end of the loop body: next member, or return
NextMember(run) ==
  IF run.i + 1 > Len(run.members)
  THEN [run EXCEPT !.pc = "done", !.i = run.i + 1]
  ELSE [run EXCEPT !.pc = "findAlias", !.i = run.i + 1]

StartImport(r, members) ==
  /\ runs[r].pc = "idle"
  /\ runs' = [runs EXCEPT ![r] =
       IF members = <<>>
       THEN [IdleRun EXCEPT !.pc = "done", !.i = 1]
       ELSE [IdleRun EXCEPT !.pc = "findAlias", !.members = members, !.i = 1]]
  /\ UNCHANGED <<clientVars, pipelineVars,
                 politicians, politicianAliases, votes, contributions,
                 stockTransactions, resolved, response>>

\* member.name.split(',') is a TypeError when the member has no name
MemberFieldsThrows(member) == "name" \notin DOMAIN member

\* catch (err) { errorCount++ }, then the next member
CatchError(run) == NextMember([run EXCEPT !.errorCount = @ + 1])

\* the top of the loop body, up to the answer of the alias lookup
FindAlias(r) ==
  /\ runs[r].pc = "findAlias"
  /\ IF MemberFieldsThrows(Member(r))
     THEN /\ runs' = [runs EXCEPT ![r] = CatchError(runs[r])]
          /\ UNCHANGED resolved
     ELSE LET found == AliasMatches(Member(r).candidate_id)
          IN IF found = {}
             THEN /\ runs' = [runs EXCEPT ![r].pc = "insertPolitician",
                                          ![r].existingAlias = 0]
                  /\ UNCHANGED resolved
             ELSE \E a \in found :
                    /\ runs' = [runs EXCEPT ![r].pc = "updatePolitician",
                                            ![r].existingAlias = a.politicianId]
                    /\ resolved' = resolved \cup
                          {<<Member(r).candidate_id, a.politicianId>>}
  /\ UNCHANGED <<clientVars, pipelineVars,
                 politicians, politicianAliases, votes, contributions,
                 stockTransactions, response>>

\* a database call of the loop body rejects: nothing is written by it
RejectDatabaseCall(r) ==
  /\ runs[r].pc \in {"findAlias", "updatePolitician", "insertPolitician",
                     "insertAlias"}
  /\ runs' = [runs EXCEPT ![r] = CatchError(runs[r])]
  /\ UNCHANGED <<clientVars, pipelineVars,
                 politicians, politicianAliases, votes, contributions,
                 stockTransactions, resolved, response>>

UpdatePolitician(r) ==
  /\ runs[r].pc = "updatePolitician"
  /\ politicians' =
       [k \in DOMAIN politicians |->
          IF politicians[k].id = runs[r].existingAlias
          THEN [id |-> politicians[k].id] @@ MemberFields(Member(r))
          ELSE politicians[k]]
  /\ runs' = [runs EXCEPT ![r] =
       NextMember([runs[r] EXCEPT !.updatedCount = @ + 1])]
  /\ UNCHANGED <<clientVars, pipelineVars,
                 politicianAliases, votes, contributions, stockTransactions,
                 resolved, response>>

InsertPolitician(r) ==
  /\ runs[r].pc = "insertPolitician"
  /\ Len(politicians) < MaxPoliticians
  /\ politicians' = InsertRow(politicians, MemberFields(Member(r)))
  /\ runs' = [runs EXCEPT ![r].pc = "insertAlias",
                          ![r].newPolitician = Len(politicians) + 1]
  /\ resolved' = resolved \cup {<<Member(r).candidate_id, Len(politicians) + 1>>}
  /\ UNCHANGED <<clientVars, pipelineVars,
                 politicianAliases, votes, contributions, stockTransactions,
                 response>>

InsertAlias(r) ==
  /\ runs[r].pc = "insertAlias"
  /\ politicianAliases' = InsertRow(politicianAliases,
       [politicianId |-> runs[r].newPolitician, source |-> "fec",
        externalId |-> Member(r).candidate_id])
  /\ runs' = [runs EXCEPT ![r] =
       NextMember([runs[r] EXCEPT !.importedCount = @ + 1])]
  /\ UNCHANGED <<clientVars, pipelineVars,
                 politicians, votes, contributions, stockTransactions,
                 resolved, response>>

(***************************************************************************)
(* importPoliticianFromFEC behind POST /api/import/fec/politician/:id.     *)
(* donations are the schedule A rows of the candidate's committees.        *)
(***************************************************************************)
\* the rows that pass "if (!contribution.contributor_name) continue"
NamedDonations(donations) ==
  SelectSeq(donations, LAMBDA d : OrEmpty(d, "contributor_name") # "")

RECURSIVE InsertRows(_, _)
InsertRows(table, rows) ==
  IF rows = <<>> THEN table
  ELSE InsertRows(InsertRow(table, Head(rows)), Tail(rows))

ImportPoliticianFromFEC(candidateId, donations) ==
  LET results == {c \in FecCandidates : c.candidate_id = candidateId}
      request == [route |-> "POST /api/import/fec/politician/:id",
                  id |-> candidateId]
  IN IF \/ results = {}
        \/ \E c \in results : mapFecCandidateToPoliticianThrows(c)
     THEN /\ response' = request @@ [status |-> 500]
          /\ UNCHANGED <<clientVars, pipelineVars,
                         politicians, politicianAliases, votes, contributions,
                         stockTransactions, runs, resolved>>
     ELSE LET fecCandidate == CHOOSE c \in results : TRUE
              politician == [id |-> Len(politicians) + 1] @@
                            mapFecCandidateToPolitician(fecCandidate)
              imported == [k \in DOMAIN NamedDonations(donations) |->
                             mapFecDonationToContribution(
                               NamedDonations(donations)[k], politician.id)]
          IN /\ Len(politicians) < MaxPoliticians
             /\ Len(contributions) + Len(imported) <= MaxContributions
             /\ politicians' = Append(politicians, politician)
             /\ contributions' = InsertRows(contributions, imported)
             /\ response' = request @@
                  [status |-> 200, politician |-> politician,
                   contributionsCount |-> Len(imported)]
             /\ UNCHANGED <<clientVars, pipelineVars,
                            politicianAliases, votes, stockTransactions,
                            runs, resolved>>

NoResponse == [route |-> "none"]

Init ==
  /\ politicians = <<>>
  /\ politicianAliases = <<>>
  /\ votes = <<>>
  /\ contributions = <<>>
  /\ stockTransactions = <<>>
  /\ runs = [r \in Runs |-> IdleRun]
  /\ resolved = {}
  /\ response = NoResponse
  /\ pipelineRuns = <<>>
  /\ activePipelines = <<>>
  /\ tasks = <<>>
  /\ timelineQuery = [status |-> "idle", pages |-> <<>>, nextPage |-> Null]
  /\ existedBefore = {}

\* no other run of the import is between its start and its return
Quiescent == \A r \in Runs : runs[r].pc \in {"idle", "done"}

StartSequential ==
  \E r \in Runs, members \in MemberLists : Quiescent /\ StartImport(r, members)

StartConcurrent ==
  \E r \in Runs, members \in MemberLists : StartImport(r, members)

StepFindAlias == \E r \in Runs : FindAlias(r)
StepUpdatePolitician == \E r \in Runs : UpdatePolitician(r)
StepInsertPolitician == \E r \in Runs : InsertPolitician(r)
StepInsertAlias == \E r \in Runs : InsertAlias(r)

ImportSteps ==
  \/ StepFindAlias
  \/ StepUpdatePolitician
  \/ StepInsertPolitician
  \/ StepInsertAlias

NextSequential == StartSequential \/ ImportSteps

SpecSequential == Init /\ [][NextSequential]_vars

CandidateIdParams == CandidateIds \cup {"H0XX00"}

ImportSingle ==
  \E candidateId \in CandidateIdParams, donations \in DonationLists :
    ImportPoliticianFromFEC(candidateId, donations)

\* import runs started while others are under way, and single imports
Next == StartConcurrent \/ ImportSteps \/ ImportSingle

Spec == Init /\ [][Next]_vars

\* a batch with a member that has no name, and database calls that may fail
BatchMembers ==
  FecCandidates \cup
    {[candidate_id |-> "H0TX03", party_full |-> "", party |-> "IND",
      state |-> "TX"]}

BatchLists == UNION {[1..n -> BatchMembers] : n \in 0..MaxMembers}

StartBatch ==
  \E r \in Runs, members \in BatchLists : Quiescent /\ StartImport(r, members)

StepRejectDatabaseCall == \E r \in Runs : RejectDatabaseCall(r)

NextBatch == StartBatch \/ ImportSteps \/ StepRejectDatabaseCall

SpecBatch == Init /\ [][NextBatch]_vars

(***************************************************************************)
(* Numbers and dates as JavaScript reads them.                             *)
(***************************************************************************)
Numerals ==
  [x \in {"-1", "0", "1", "2", "3", "4", "5", "6", "7", "8", "9", "30"} |->
     CASE x = "-1" -> -1
       [] x = "0" -> 0 [] x = "1" -> 1 [] x = "2" -> 2 [] x = "3" -> 3
       [] x = "4" -> 4 [] x = "5" -> 5 [] x = "6" -> 6 [] x = "7" -> 7
       [] x = "8" -> 8 [] x = "9" -> 9
       [] x = "30" -> 30]

\* strings that begin with digits and go on with something else: parseInt
\* reads the digits and ignores the rest
NumericPrefix == [x \in {"1abc"} |-> 1]

\* parseInt of a route or query parameter; undefined and strings that do not
\* begin with a number give NaN
ParseInt(x) ==
  IF x \in DOMAIN Numerals THEN [nan |-> FALSE, val |-> Numerals[x]]
  ELSE IF x \in DOMAIN NumericPrefix
       THEN [nan |-> FALSE, val |-> NumericPrefix[x]]
       ELSE [nan |-> TRUE, val |-> 0]

\* parseInt(x) || dflt : NaN and 0 are falsy
ParseIntOr(x, dflt) ==
  LET n == ParseInt(x) IN IF n.nan \/ n.val = 0 THEN dflt ELSE n.val

\* parseFloat of the decimal strings the model uses
ParseFloat(x) ==
  CASE x = "0" -> [nan |-> FALSE, val |-> 0]
    [] x = "5000" -> [nan |-> FALSE, val |-> 5000]
    [] x = "15000" -> [nan |-> FALSE, val |-> 15000]
    [] x = "250000" -> [nan |-> FALSE, val |-> 250000]
    [] OTHER -> [nan |-> TRUE, val |-> 0]

\* the calendar days the model's date strings denote, counted from 2023-01-01
UtcDay ==
  [x \in {"2023-01-01", "2023-01-02", "2023-01-30", "2023-01-31",
          "2023-02-01", "2023-02-01T12:00:00.000Z", "2023-02-02",
          "2023-03-01", "2023-03-03", "2023-03-04", "2023-06-01"} |->
     CASE x = "2023-01-01" -> 0
       [] x = "2023-01-02" -> 1
       [] x = "2023-01-30" -> 29
       [] x = "2023-01-31" -> 30
       [] x \in {"2023-02-01", "2023-02-01T12:00:00.000Z"} -> 31
       [] x = "2023-02-02" -> 32
       [] x = "2023-03-01" -> 59
       [] x = "2023-03-03" -> 61
       [] x = "2023-03-04" -> 62
       [] x = "2023-06-01" -> 151]

\* new Date(s) is an Invalid Date, and its getTime() NaN, for other strings
IsInvalidDate(s) == s \notin DOMAIN UtcDay

\* new Date(s).getTime(), in ticks: a date-only string is midnight UTC
GetTime(s) ==
  UtcDay[s] * TicksPerDay +
    (IF s = "2023-02-01T12:00:00.000Z" THEN TicksPerDay \div 2 ELSE 0)

Abs(x) == IF x < 0 THEN -x ELSE x

\* Math.ceil(a / b) for a >= 0 and b # 0
CeilDiv(a, b) == IF b > 0 THEN (a + b - 1) \div b ELSE -(a \div (-b))

(***************************************************************************)
(* Storage (storage.ts): create* appends the row with the next id and      *)
(* keeps the values it is given; get*ByPolitician filters on politicianId. *)
(***************************************************************************)
ByPolitician(table, politicianId) ==
  SelectSeq(table, LAMBDA row : row.politicianId = politicianId)

PostPolitician(body) ==
  /\ Len(politicians) < MaxPoliticians
  /\ politicians' = InsertRow(politicians, body)
  /\ response' = [route |-> "POST /api/politicians", status |-> 201,
                  body |-> [id |-> Len(politicians) + 1] @@ body]
  /\ UNCHANGED <<clientVars, pipelineVars,
                 politicianAliases, votes, contributions, stockTransactions,
                 runs, resolved>>

PostVote(body) ==
  /\ Len(votes) < MaxVotes
  /\ votes' = InsertRow(votes, body)
  /\ response' = [route |-> "POST /api/votes", status |-> 201,
                  body |-> [id |-> Len(votes) + 1] @@ body]
  /\ UNCHANGED <<clientVars, pipelineVars,
                 politicians, politicianAliases, contributions,
                 stockTransactions, runs, resolved>>

PostContribution(body) ==
  /\ Len(contributions) < MaxContributions
  /\ contributions' = InsertRow(contributions, body)
  /\ response' = [route |-> "POST /api/contributions", status |-> 201,
                  body |-> [id |-> Len(contributions) + 1] @@ body]
  /\ UNCHANGED <<clientVars, pipelineVars,
                 politicians, politicianAliases, votes, stockTransactions,
                 runs, resolved>>

PostStockTransaction(body) ==
  /\ Len(stockTransactions) < MaxTransactions
  /\ stockTransactions' = InsertRow(stockTransactions, body)
  /\ response' = [route |-> "POST /api/stock-transactions", status |-> 201,
                  body |-> [id |-> Len(stockTransactions) + 1] @@ body]
  /\ UNCHANGED <<clientVars, pipelineVars,
                 politicians, politicianAliases, votes, contributions,
                 runs, resolved>>

(***************************************************************************)
(* GET /api/politicians/:id/conflicts                                      *)
(***************************************************************************)
DefaultDays == 30

\* if (!transaction.relatedBill) continue
HasRelatedBill(transaction) == transaction.relatedBill \notin {Null, ""}

\* the screening rule of detectPotentialConflict merged into the detector:
\* a transaction over $100,000 is related to every vote
RelatedVotesOrLargeAmount(transaction, vs) ==
  IF ParseFloat(transaction.amount).val > 100000 THEN vs
  ELSE SelectSeq(vs, LAMBDA vote : vote.billName = transaction.relatedBill)

\* votes.filter(vote => vote.billName === transaction.relatedBill)
RelatedVotes(transaction, vs) ==
  SelectSeq(vs, LAMBDA vote : vote.billName = transaction.relatedBill)

\* the difference rounded down instead of up
DiffDaysFloor(transaction, vote) ==
  Abs(GetTime(vote.voteDate) - GetTime(transaction.tradeDate)) \div TicksPerDay

\* Math.ceil(Math.abs(voteDate.getTime() - transactionDate.getTime()) / day)
DiffDays(transaction, vote) ==
  CeilDiv(Abs(GetTime(vote.voteDate) - GetTime(transaction.tradeDate)),
          TicksPerDay)

\* an exclusive boundary
WithinDaysExclusive(diffDays, days) == diffDays < days

\* if (diffDays <= days)
WithinDays(diffDays, days) == diffDays <= days

Conflict(transaction, vote) ==
  [trade_id |-> transaction.id,
   bill_id |-> vote.id,
   delta_days |-> DiffDays(transaction, vote),
   amount |-> transaction.amount,
   symbol |-> transaction.stockName,
   vote_date |-> vote.voteDate,
   trade_date |-> transaction.tradeDate,
   trade_type |-> transaction.tradeType,
   vote_result |-> vote.voteResult,
   bill_name |-> vote.billName,
   bill_description |-> vote.billDescription]

\* only the closest vote of a transaction is reported
RECURSIVE ClosestVote(_, _)
ClosestVote(transaction, relatedVotes) ==
  IF Len(relatedVotes) = 1 THEN Head(relatedVotes)
  ELSE LET rest == ClosestVote(transaction, Tail(relatedVotes))
       IN IF DiffDays(transaction, Head(relatedVotes)) <= DiffDays(transaction, rest)
          THEN Head(relatedVotes) ELSE rest

ConflictsWithClosestVote(transaction, relatedVotes, days) ==
  IF relatedVotes = <<>> THEN <<>>
  ELSE LET vote == ClosestVote(transaction, relatedVotes)
       IN IF WithinDays(DiffDays(transaction, vote), days)
          THEN <<Conflict(transaction, vote)>> ELSE <<>>

\* the inner loop over relatedVotes
RECURSIVE ConflictsWithVotes(_, _, _)
ConflictsWithVotes(transaction, relatedVotes, days) ==
  IF relatedVotes = <<>> THEN <<>>
  ELSE (IF /\ ~IsInvalidDate(transaction.tradeDate)
           /\ ~IsInvalidDate(Head(relatedVotes).voteDate)
           /\ WithinDays(DiffDays(transaction, Head(relatedVotes)), days)
        THEN <<Conflict(transaction, Head(relatedVotes))>> ELSE <<>>)
       \o ConflictsWithVotes(transaction, Tail(relatedVotes), days)

\* the outer loop over transactions
RECURSIVE FindConflicts(_, _, _)
FindConflicts(transactions, vs, days) ==
  IF transactions = <<>> THEN <<>>
  ELSE (IF HasRelatedBill(Head(transactions))
        THEN ConflictsWithVotes(Head(transactions),
                                RelatedVotes(Head(transactions), vs), days)
        ELSE <<>>)
       \o FindConflicts(Tail(transactions), vs, days)

ConflictsResponse(idParam, daysParam) ==
  LET politicianId == ParseInt(idParam)
      days == ParseIntOr(daysParam, DefaultDays)
      request == [route |-> "GET /api/politicians/:id/conflicts",
                  id |-> idParam, days |-> daysParam]
  IN IF politicianId.nan
     THEN request @@ [status |-> 400, body |-> <<>>]
     ELSE IF getPolitician(politicianId.val) = {}
     THEN request @@ [status |-> 404, body |-> <<>>]
     ELSE request @@
          [status |-> 200,
           body |-> FindConflicts(
                      ByPolitician(stockTransactions, politicianId.val),
                      ByPolitician(votes, politicianId.val), days)]

GetConflicts(idParam, daysParam) ==
  /\ response' = ConflictsResponse(idParam, daysParam)
  /\ UNCHANGED <<clientVars, pipelineVars,
                 politicians, politicianAliases, votes, contributions,
                 stockTransactions, runs, resolved>>

(***************************************************************************)
(* Array.prototype.sort (stable) and Array.prototype.slice.                *)
(***************************************************************************)
\* Array.prototype.sort as the engine performs it for arrays of fewer than 64
\* elements: the run the array starts with is found (and reversed when it
\* is strictly descending), the other elements are put in by binary
\* insertion.  order is a function of two indices: what the comparator
\* returns for the two elements, a NaN read as 0.
RECURSIVE RunEnd(_, _, _, _)
RunEnd(order, a, idx, isDescending) ==
  IF idx > Len(a) THEN idx - 1
  ELSE IF \/ isDescending /\ order[a[idx]][a[idx - 1]] >= 0
          \/ ~isDescending /\ order[a[idx]][a[idx - 1]] < 0
       THEN idx - 1
       ELSE RunEnd(order, a, idx + 1, isDescending)

Reverse(s) == [k \in 1..Len(s) |-> s[Len(s) + 1 - k]]

CountAndMakeRun(order, a) ==
  IF Len(a) < 2 THEN [a |-> a, run |-> Len(a)]
  ELSE LET isDescending == order[a[2]][a[1]] < 0
           end == RunEnd(order, a, 3, isDescending)
       IN [a |-> IF isDescending
                 THEN Reverse(SubSeq(a, 1, end)) \o SubSeq(a, end + 1, Len(a))
                 ELSE a,
           run |-> end]

RECURSIVE BinarySearch(_, _, _, _, _)
BinarySearch(order, a, pivot, left, right) ==
  IF left >= right THEN left
  ELSE LET mid == left + (right - left) \div 2
       IN IF order[pivot][a[mid]] < 0
          THEN BinarySearch(order, a, pivot, left, mid)
          ELSE BinarySearch(order, a, pivot, mid + 1, right)

RECURSIVE BinaryInsertionSort(_, _, _)
BinaryInsertionSort(order, a, start) ==
  IF start > Len(a) THEN a
  ELSE LET pivot == a[start]
           pos == BinarySearch(order, a, pivot, 1, start)
       IN BinaryInsertionSort(
            order,
            SubSeq(a, 1, pos - 1) \o <<pivot>> \o SubSeq(a, pos, start - 1)
              \o SubSeq(a, start + 1, Len(a)),
            start + 1)

Sort(s, cmp(_, _)) ==
  LET order == [i \in 1..Len(s) |-> [j \in 1..Len(s) |-> cmp(s[i], s[j])]]
      made == CountAndMakeRun(order, [k \in 1..Len(s) |-> k])
      sorted == BinaryInsertionSort(order, made.a, made.run + 1)
  IN [p \in 1..Len(s) |-> s[sorted[p]]]

Min(a, b) == IF a < b THEN a ELSE b
Max(a, b) == IF a > b THEN a ELSE b

\* a slice that takes the element at the end index too
SliceThroughEnd(s, start, end) ==
  LET from == IF start < 0 THEN Max(Len(s) + start, 0) ELSE Min(start, Len(s))
      to == IF end < 0 THEN Max(Len(s) + end, 0) ELSE Min(end, Len(s))
  IN SubSeq(s, from + 1, Min(to + 1, Len(s)))

Slice(s, start, end) ==
  LET from == IF start < 0 THEN Max(Len(s) + start, 0) ELSE Min(start, Len(s))
      to == IF end < 0 THEN Max(Len(s) + end, 0) ELSE Min(end, Len(s))
  IN SubSeq(s, from + 1, to)

MapSeq(s, f(_)) == [k \in DOMAIN s |-> f(s[k])]

(***************************************************************************)
(* GET /api/politicians/:id/timeline, unnamed/part_015                     *)
(***************************************************************************)
DefaultPage == 1
DefaultPageSize == 10

VoteItem(vote) ==
  [uid |-> <<"vote", vote.id>>, type |-> "vote", data |-> vote,
   date |-> vote.voteDate, amount |-> Null]

ContributionItem(contribution) ==
  [uid |-> <<"contribution", contribution.id>>, type |-> "contribution",
   data |-> contribution, date |-> contribution.contributionDate,
   amount |-> contribution.amount]

TransactionItem(transaction) ==
  [uid |-> <<"transaction", transaction.id>>, type |-> "stock_transaction",
   data |-> transaction, date |-> transaction.tradeDate,
   amount |-> transaction.amount]

\* a combined list that leaves the stock transactions out
TimelineItemsWithoutTransactions(politicianId) ==
  MapSeq(ByPolitician(votes, politicianId), VoteItem)
  \o MapSeq(ByPolitician(contributions, politicianId), ContributionItem)

\* the combined list, before it is sorted
TimelineItems(politicianId) ==
  MapSeq(ByPolitician(votes, politicianId), VoteItem)
  \o MapSeq(ByPolitician(contributions, politicianId), ContributionItem)
  \o MapSeq(ByPolitician(stockTransactions, politicianId), TransactionItem)

\* (a, b) => dateB - dateA, which is NaN when a date is invalid
CompareDescending(a, b) ==
  IF IsInvalidDate(a.date) \/ IsInvalidDate(b.date) THEN 0
  ELSE GetTime(b.date) - GetTime(a.date)

\* another page is announced when the list ends exactly at the page's end
HasNextPageThroughEnd(endIndex, length) == endIndex <= length

\* const hasNextPage = endIndex < timelineItems.length
HasNextPage(endIndex, length) == endIndex < length

TimelineResponse(idParam, pageParam, pageSizeParam, sortParam) ==
  LET politicianId == ParseInt(idParam)
      page == ParseIntOr(pageParam, DefaultPage)
      pageSize == ParseIntOr(pageSizeParam, DefaultPageSize)
      request == [route |-> "GET /api/politicians/:id/timeline",
                  module |-> "unnamed/part_015", id |-> idParam,
                  pageParam |-> pageParam, pageSizeParam |-> pageSizeParam,
                  sort |-> sortParam]
  IN IF politicianId.nan
     THEN request @@ [status |-> 400]
     ELSE IF getPolitician(politicianId.val) = {}
     THEN request @@ [status |-> 404]
     ELSE LET timelineItems ==
                Sort(TimelineItems(politicianId.val), CompareDescending)
              startIndex == (page - 1) * pageSize
              endIndex == startIndex + pageSize
              hasNextPage == HasNextPage(endIndex, Len(timelineItems))
          IN request @@
             [status |-> 200,
              items |-> Slice(timelineItems, startIndex, endIndex),
              total |-> Len(timelineItems),
              page |-> page,
              page_size |-> pageSize,
              total_pages |-> CeilDiv(Len(timelineItems), pageSize),
              next_page |-> IF hasNextPage THEN [null |-> FALSE, val |-> page + 1]
                            ELSE [null |-> TRUE, val |-> 0]]

GetTimeline(idParam, pageParam, pageSizeParam, sortParam) ==
  /\ response' = TimelineResponse(idParam, pageParam, pageSizeParam, sortParam)
  /\ UNCHANGED <<clientVars, pipelineVars,
                 politicians, politicianAliases, votes, contributions,
                 stockTransactions, runs, resolved>>

(***************************************************************************)
(* GET /api/politicians/:id/timeline, server/routes.ts                     *)
(***************************************************************************)
DefaultLimit == 50

PoliticianSummary(politician) ==
  [id |-> politician.id, firstName |-> politician.firstName,
   lastName |-> politician.lastName, party |-> politician.party,
   state |-> politician.state]

\* the combined list of server/routes.ts, before it is sorted
TimelineEvents(politician) ==
  MapSeq(ByPolitician(votes, politician.id),
         LAMBDA vote :
           [type |-> "vote", date |-> vote.voteDate,
            politician |-> PoliticianSummary(politician),
            data |-> [billName |-> vote.billName,
                      billDescription |-> vote.billDescription,
                      voteResult |-> vote.voteResult]])
  \o MapSeq(ByPolitician(contributions, politician.id),
         LAMBDA contribution :
           [type |-> "contribution", date |-> contribution.contributionDate,
            politician |-> PoliticianSummary(politician),
            data |-> [organization |-> contribution.organization,
                      amount |-> contribution.amount,
                      industry |-> contribution.industry]])
  \o MapSeq(ByPolitician(stockTransactions, politician.id),
         LAMBDA transaction :
           [type |-> "stock_transaction", date |-> transaction.tradeDate,
            politician |-> PoliticianSummary(politician),
            data |-> [stockName |-> transaction.stockName,
                      tradeType |-> transaction.tradeType,
                      amount |-> transaction.amount,
                      relatedBill |-> transaction.relatedBill,
                      potentialConflict |-> transaction.potentialConflict]])

\* req.query.sort === 'asc' ? 1 : -1
SortDirection(sortParam) == IF sortParam = "asc" THEN 1 ELSE -1

\* (a, b) => sortDirection * (dateB - dateA)
CompareDirected(sortParam, a, b) ==
  IF IsInvalidDate(a.date) \/ IsInvalidDate(b.date) THEN 0
  ELSE SortDirection(sortParam) * (GetTime(b.date) - GetTime(a.date))

RoutesTimelineResponse(idParam, pageParam, limitParam, sortParam) ==
  LET id == ParseInt(idParam)
      page == IF pageParam \in {Null, ""}
              THEN [nan |-> FALSE, val |-> DefaultPage] ELSE ParseInt(pageParam)
      limit == IF limitParam \in {Null, ""}
               THEN [nan |-> FALSE, val |-> DefaultLimit] ELSE ParseInt(limitParam)
      request == [route |-> "GET /api/politicians/:id/timeline",
                  module |-> "server/routes.ts", id |-> idParam,
                  sort |-> sortParam]
  IN IF id.nan
     THEN request @@ [status |-> 400]
     ELSE IF getPolitician(id.val) = {}
     THEN request @@ [status |-> 404]
     ELSE LET politician == CHOOSE p \in getPolitician(id.val) : TRUE
              timelineEvents ==
                Sort(TimelineEvents(politician),
                     LAMBDA a, b : CompareDirected(sortParam, a, b))
              \* NaN indexes are read as 0 by slice
              startIndex == IF page.nan \/ limit.nan THEN 0
                            ELSE (page.val - 1) * limit.val
              endIndex == IF page.nan \/ limit.nan THEN 0
                          ELSE page.val * limit.val
          IN request @@
             [status |-> 200,
              politician |-> PoliticianSummary(politician),
              items |-> Slice(timelineEvents, startIndex, endIndex),
              pagination |->
                [totalItems |-> Len(timelineEvents),
                 itemsPerPage |-> limit,
                 currentPage |-> page,
                 totalPages |->
                   IF limit.nan \/ limit.val <= 0
                   THEN [nan |-> TRUE, val |-> 0]
                   ELSE [nan |-> FALSE,
                         val |-> CeilDiv(Len(timelineEvents), limit.val)]],
              summary |->
                [totalVotes |-> Len(ByPolitician(votes, id.val)),
                 totalContributions |-> Len(ByPolitician(contributions, id.val)),
                 totalStockTransactions |->
                   Len(ByPolitician(stockTransactions, id.val))]]

GetRoutesTimeline(idParam, pageParam, limitParam, sortParam) ==
  /\ response' = RoutesTimelineResponse(idParam, pageParam, limitParam, sortParam)
  /\ UNCHANGED <<clientVars, pipelineVars,
                 politicians, politicianAliases, votes, contributions,
                 stockTransactions, runs, resolved>>

(***************************************************************************)
(* GET /api/politicians/:id/network, unnamed/part_015.  now is the instant *)
(* new Date() gives when the request is served.                            *)
(***************************************************************************)
DefaultNDays == 365

\* cutoffDate.setDate(cutoffDate.getDate() - nDays): the same time of day,
\* nDays days earlier
CutoffTime(now, nDays) == GetTime(now) - nDays * TicksPerDay

\* contributionDate >= cutoffDate
IsRecent(contrib, cutoff) ==
  /\ ~IsInvalidDate(contrib.contributionDate)
  /\ GetTime(contrib.contributionDate) >= cutoff

\* org.replace(/\s+/g, '_') on the organization names of the model
ReplaceWhitespace ==
  [org \in {"ACME PAC", "ACME_PAC", "Globex"} |->
     CASE org = "ACME PAC" -> "ACME_PAC"
       [] org = "ACME_PAC" -> "ACME_PAC"
       [] org = "Globex" -> "Globex"]

OrgNodeId(org) == <<"org_", ReplaceWhitespace[org]>>

PoliticianNodeId(politician) == <<"p", politician.id>>

\* the insertion order of a Set: first occurrences only
RECURSIVE Organizations(_)
Organizations(recentContributions) ==
  IF recentContributions = <<>> THEN <<>>
  ELSE LET front == Organizations(SubSeq(recentContributions, 1,
                                         Len(recentContributions) - 1))
           org == recentContributions[Len(recentContributions)].organization
       IN IF org \in Range(front) THEN front ELSE Append(front, org)

NetworkNodes(politician, recentContributions) ==
  <<[id |-> PoliticianNodeId(politician), type |-> "politician",
     label |-> politician.firstName \o <<" ">> \o politician.lastName,
     party |-> politician.party, state |-> politician.state]>>
  \o MapSeq(Organizations(recentContributions),
            LAMBDA org : [id |-> OrgNodeId(org), type |-> "organization",
                          label |-> org])

\* one link per organization, weighted with the sum of its contributions
NetworkLinksPerOrganization(politician, recentContributions) ==
  MapSeq(Organizations(recentContributions),
         LAMBDA org :
           LET own == SelectSeq(recentContributions,
                                LAMBDA c : c.organization = org)
               sum[k \in 0..Len(own)] ==
                 IF k = 0 THEN 0 ELSE sum[k - 1] + ParseFloat(own[k].amount).val
           IN [source |-> OrgNodeId(org),
               target |-> PoliticianNodeId(politician),
               weight |-> [nan |-> FALSE, val |-> sum[Len(own)]],
               kind |-> "contribution",
               date |-> own[1].contributionDate])

\* recentContributions.map(contrib => ({source, target, weight, kind, date}))
NetworkLinks(politician, recentContributions) ==
  MapSeq(recentContributions,
         LAMBDA contrib :
           [source |-> OrgNodeId(contrib.organization),
            target |-> PoliticianNodeId(politician),
            weight |-> ParseFloat(contrib.amount),
            kind |-> "contribution",
            date |-> contrib.contributionDate])

NetworkResponse(idParam, nDaysParam, now) ==
  LET politicianId == ParseInt(idParam)
      nDays == ParseIntOr(nDaysParam, DefaultNDays)
      request == [route |-> "GET /api/politicians/:id/network",
                  id |-> idParam, nDaysParam |-> nDaysParam, now |-> now]
  IN IF politicianId.nan
     THEN request @@ [status |-> 400]
     ELSE IF getPolitician(politicianId.val) = {}
     THEN request @@ [status |-> 404]
     ELSE LET politician == CHOOSE p \in getPolitician(politicianId.val) : TRUE
              cutoffDate == CutoffTime(now, nDays)
              recentContributions ==
                SelectSeq(ByPolitician(contributions, politicianId.val),
                          LAMBDA contrib : IsRecent(contrib, cutoffDate))
          IN request @@
             [status |-> 200,
              nodes |-> NetworkNodes(politician, recentContributions),
              links |-> NetworkLinks(politician, recentContributions)]

GetNetwork(idParam, nDaysParam, now) ==
  /\ response' = NetworkResponse(idParam, nDaysParam, now)
  /\ UNCHANGED <<clientVars, pipelineVars,
                 politicians, politicianAliases, votes, contributions,
                 stockTransactions, runs, resolved>>

(***************************************************************************)
(* Request bodies and parameters the specifications draw from.             *)
(***************************************************************************)
PoliticianInput ==
  [firstName |-> <<"JOHN">>, lastName |-> <<"SMITH">>, state |-> "CA",
   party |-> "Democrat", fecCandidateId |-> Null]

Bill1 == "H.R. 1234"
Bill2 == "S. 99"

VoteInput(politicianId, billName, voteDate) ==
  [politicianId |-> politicianId, billName |-> billName,
   billDescription |-> "Tech Regulation Act", voteDate |-> voteDate,
   voteResult |-> "YES"]

TransactionInput(politicianId, relatedBill, tradeDate, amount, flag) ==
  [politicianId |-> politicianId, stockName |-> "ACME", tradeDate |-> tradeDate,
   tradeType |-> "BUY", amount |-> amount, relatedBill |-> relatedBill,
   potentialConflict |-> flag]

IdParams == {"1", "2", "abc"}

\* votes around a trade of 2023-02-01: 30, 2, 1 and 0 days before it and 1,
\* 30 and 31 days after it
WindowVoteInputs ==
  {VoteInput(1, Bill1, d) :
     d \in {"2023-01-02", "2023-01-30", "2023-01-31", "2023-02-01",
            "2023-02-02", "2023-03-03", "2023-03-04"}}

WindowTransactionInputs ==
  {TransactionInput(1, Bill1, d, "5000", FALSE) :
     d \in {"2023-02-01", "2023-02-01T12:00:00.000Z"}}

WindowDaysParams == {Null, "0", "1"}

PostPoliticianAny == PostPolitician(PoliticianInput)
PostVoteWindow == \E body \in WindowVoteInputs : PostVote(body)
PostTransactionWindow ==
  \E body \in WindowTransactionInputs : PostStockTransaction(body)
GetConflictsWindow ==
  \E idParam \in IdParams, daysParam \in WindowDaysParams :
    GetConflicts(idParam, daysParam)

NextWindow ==
  \/ PostPoliticianAny
  \/ PostVoteWindow
  \/ PostTransactionWindow
  \/ GetConflictsWindow

SpecWindow == Init /\ [][NextWindow]_vars

\* votes of two politicians on one bill, near the trades and far from them
CrossVoteInputs ==
  {VoteInput(1, Bill1, "2023-02-01"), VoteInput(1, Bill1, "2023-02-02"),
   VoteInput(1, Bill1, "2023-06-01"), VoteInput(2, Bill1, "2023-02-01")}

\* trades that differ in amount and flag only, trades with no bill or another
\* bill, and a trade of the other politician
CrossTransactionInputs ==
  {TransactionInput(1, Bill1, "2023-02-01", "5000", FALSE),
   TransactionInput(1, Bill1, "2023-02-01", "250000", TRUE),
   TransactionInput(1, "", "2023-02-01", "250000", TRUE),
   TransactionInput(1, Bill2, "2023-02-01", "250000", TRUE),
   TransactionInput(2, Bill1, "2023-02-01", "5000", FALSE)}

PostVoteCross == \E body \in CrossVoteInputs : PostVote(body)
PostTransactionCross ==
  \E body \in CrossTransactionInputs : PostStockTransaction(body)
GetConflictsCross == \E idParam \in IdParams : GetConflicts(idParam, Null)

NextCross ==
  \/ PostPoliticianAny
  \/ PostVoteCross
  \/ PostTransactionCross
  \/ GetConflictsCross

SpecCross == Init /\ [][NextCross]_vars

ContributionInput(politicianId, contributionDate, amount) ==
  [politicianId |-> politicianId, organization |-> "ACME PAC",
   amount |-> amount, contributionDate |-> contributionDate,
   industry |-> "Technology"]

TimelineVoteInputs ==
  {VoteInput(1, Bill1, "2023-01-01"), VoteInput(2, Bill1, "2023-01-01")}

TimelineContributionInputs ==
  {ContributionInput(1, "2023-06-01", "15000"),
   ContributionInput(1, "2023-03-01", "5000")}

TimelineTransactionInputs ==
  {TransactionInput(1, Bill1, "2023-03-01", "250000", TRUE)}

TimelineIdParams == {"1", "2"}
SortParams == {Null, "asc", "desc"}

PostVoteTimeline == \E body \in TimelineVoteInputs : PostVote(body)
PostContributionTimeline ==
  \E body \in TimelineContributionInputs : PostContribution(body)
PostTransactionTimeline ==
  \E body \in TimelineTransactionInputs : PostStockTransaction(body)
GetTimelineAny ==
  \E idParam \in TimelineIdParams, sortParam \in SortParams :
    GetTimeline(idParam, Null, Null, sortParam)
GetRoutesTimelineAny ==
  \E idParam \in TimelineIdParams, sortParam \in SortParams :
    GetRoutesTimeline(idParam, Null, Null, sortParam)

NextTimeline ==
  \/ PostPoliticianAny
  \/ PostVoteTimeline
  \/ PostContributionTimeline
  \/ PostTransactionTimeline
  \/ GetTimelineAny
  \/ GetRoutesTimelineAny

SpecTimeline == Init /\ [][NextTimeline]_vars

\* one politician's records and the pages of their timeline
PagesVoteInputs == {VoteInput(1, Bill1, "2023-01-01")}
PageParams == {Null, "0", "1", "2", "3"}
PageSizeParams == {Null, "-1", "2", "3"}

PostVotePages == \E body \in PagesVoteInputs : PostVote(body)
GetTimelinePage ==
  \E pageParam \in PageParams, pageSizeParam \in PageSizeParams :
    GetTimeline("1", pageParam, pageSizeParam, Null)

NextPages ==
  \/ PostPoliticianAny
  \/ PostVotePages
  \/ PostContributionTimeline
  \/ PostTransactionTimeline
  \/ GetTimelinePage

SpecPages == Init /\ [][NextPages]_vars

OrgContributionInput(politicianId, organization, contributionDate, amount) ==
  [ContributionInput(politicianId, contributionDate, amount)
     EXCEPT !.organization = organization]

\* contributions on the day of the request of 2023-02-01, one day and two
\* days before it, and a contribution to another politician
NetworkContributionInputs ==
  {OrgContributionInput(1, "ACME PAC", "2023-01-31", "5000"),
   OrgContributionInput(1, "ACME PAC", "2023-01-30", "15000"),
   OrgContributionInput(1, "Globex", "2023-02-01", "15000"),
   OrgContributionInput(1, "ACME_PAC", "2023-02-01", "250000"),
   OrgContributionInput(2, "Globex", "2023-02-01", "5000")}

\* the request is served at midnight UTC or at noon
RequestTimes == {"2023-02-01", "2023-02-01T12:00:00.000Z"}

NDaysParams == {Null, "0", "1"}

PostContributionNetwork ==
  \E body \in NetworkContributionInputs : PostContribution(body)
GetNetworkAny ==
  \E idParam \in IdParams, nDaysParam \in NDaysParams, now \in RequestTimes :
    GetNetwork(idParam, nDaysParam, now)

NextNetwork ==
  \/ PostPoliticianAny
  \/ PostContributionNetwork
  \/ GetNetworkAny

SpecNetwork == Init /\ [][NextNetwork]_vars

\* records whose date is not a date, next to records with a date
BadDate == "not-a-date"

BadDateVoteInputs ==
  {VoteInput(1, Bill1, "2023-01-01"), VoteInput(1, Bill1, BadDate)}

BadDateContributionInputs ==
  {ContributionInput(1, "2023-01-31", "15000"),
   ContributionInput(1, BadDate, "5000")}

BadDateTransactionInputs ==
  {TransactionInput(1, Bill1, "2023-01-02", "5000", FALSE),
   TransactionInput(1, Bill1, BadDate, "5000", FALSE)}

PostVoteBadDate == \E body \in BadDateVoteInputs : PostVote(body)
PostContributionBadDate ==
  \E body \in BadDateContributionInputs : PostContribution(body)
PostTransactionBadDate ==
  \E body \in BadDateTransactionInputs : PostStockTransaction(body)
GetTimelineBadDate == GetTimeline("1", Null, Null, Null)
GetConflictsBadDate == GetConflicts("1", Null)
GetNetworkBadDate == GetNetwork("1", Null, "2023-02-01")

NextBadDates ==
  \/ PostPoliticianAny
  \/ PostVoteBadDate
  \/ PostContributionBadDate
  \/ PostTransactionBadDate
  \/ GetTimelineBadDate
  \/ GetConflictsBadDate
  \/ GetNetworkBadDate

SpecBadDates == Init /\ [][NextBadDates]_vars

\* the three endpoints asked for a politician that exists, one that does
\* not, and ids that are not numbers
ErrorIdParams == {"1", "2", "abc", "1abc"}

GetTimelineById ==
  \E idParam \in ErrorIdParams : GetTimeline(idParam, Null, Null, Null)
GetConflictsById == \E idParam \in ErrorIdParams : GetConflicts(idParam, Null)
GetNetworkById ==
  \E idParam \in ErrorIdParams : GetNetwork(idParam, Null, "2023-02-01")

NextErrors ==
  \/ PostPoliticianAny
  \/ PostVoteTimeline
  \/ PostContributionTimeline
  \/ PostTransactionTimeline
  \/ GetTimelineById
  \/ GetConflictsById
  \/ GetNetworkById

SpecErrors == Init /\ [][NextErrors]_vars

(***************************************************************************)
(* generateNetworkData behind GET /api/network: the politicians asked for  *)
(* (all of them when none is named) as nodes, then one node per            *)
(* organization and per stock with a link for every contribution and       *)
(* transaction, the loops over organizations and stocks stopping when the  *)
(* nodes have reached maxNodes.                                            *)
(***************************************************************************)
DefaultMaxNodes == 100

\* name.replace(/\s+/g, '-')
ReplaceWhitespaceWithDash ==
  [name \in {"ACME PAC", "ACME-PAC", "Globex", "ACME"} |->
     CASE name = "ACME PAC" -> "ACME-PAC"
       [] name = "ACME-PAC" -> "ACME-PAC"
       [] name = "Globex" -> "Globex"
       [] name = "ACME" -> "ACME"]

\* the politicians of the request, in the order of politicianIds, the ids
\* without a row left out
RECURSIVE FoundPoliticians(_)
FoundPoliticians(politicianIds) ==
  IF politicianIds = <<>> THEN <<>>
  ELSE LET found == SelectSeq(politicians,
                              LAMBDA p : p.id = Head(politicianIds))
       IN found \o FoundPoliticians(Tail(politicianIds))

\* politician_ids.split(',').map(parseInt) without the NaN
RECURSIVE ParsedIds(_)
ParsedIds(idParams) ==
  IF idParams = <<>> THEN <<>>
  ELSE LET id == ParseInt(Head(idParams))
       IN (IF id.nan THEN <<>> ELSE <<id.val>>) \o ParsedIds(Tail(idParams))

\* the keys of a grouping object in the order Object.entries gives them:
\* first occurrences
RECURSIVE GroupKeys(_, _)
GroupKeys(rows, key) ==
  IF rows = <<>> THEN <<>>
  ELSE LET front == GroupKeys(SubSeq(rows, 1, Len(rows) - 1), key)
           name == rows[Len(rows)][key]
       IN IF name \in Range(front) THEN front ELSE Append(front, name)

\* the rows of the selected politicians, politician after politician
RECURSIVE RowsOfPoliticians(_, _)
RowsOfPoliticians(table, selected) ==
  IF selected = <<>> THEN <<>>
  ELSE ByPolitician(table, Head(selected).id)
       \o RowsOfPoliticians(table, Tail(selected))

\* reduce over the amounts, NaN counted as 0
RECURSIVE TotalAmount(_)
TotalAmount(rows) ==
  IF rows = <<>> THEN 0
  ELSE LET amount == ParseFloat(Head(rows).amount)
       IN (IF amount.nan THEN 0 ELSE amount.val) + TotalAmount(Tail(rows))

\* industries.sort by how often each occurs, first element; 'Unknown' when
\* no contribution names an industry
OrganizationIndustry(rows) ==
  LET named == SelectSeq(rows, LAMBDA c : c.industry \notin {"", Null})
      industries == [k \in DOMAIN named |-> named[k].industry]
      Count(i) == Cardinality({k \in DOMAIN industries : industries[k] = i})
      ByFrequency(a, b) == Count(a) - Count(b)
  IN IF industries = <<>> THEN "Unknown"
     ELSE Sort(industries, ByFrequency)[1]

PoliticianNode(politician) ==
  [id |-> <<"politician-", politician.id>>,
   name |-> politician.firstName \o <<" ">> \o politician.lastName,
   type |-> "politician", group |-> politician.party, image |-> Null]

\* the politician nodes: one per id
RECURSIVE PoliticianNodes(_)
PoliticianNodes(selected) ==
  IF selected = <<>> THEN <<>>
  ELSE LET front == PoliticianNodes(SubSeq(selected, 1, Len(selected) - 1))
           node == PoliticianNode(selected[Len(selected)])
       IN IF \E k \in DOMAIN front : front[k].id = node.id THEN front
          ELSE Append(front, node)

\* the links of a group of rows: the rows whose amount is a number
GroupLinks(nodeId, rows, linkType(_)) ==
  LET numeric == SelectSeq(rows, LAMBDA row : ~ParseFloat(row.amount).nan)
  IN [k \in DOMAIN numeric |->
        [source |-> nodeId,
         target |-> <<"politician-", numeric[k].politicianId>>,
         value |-> ParseFloat(numeric[k].amount).val,
         type |-> linkType(numeric[k])]]

ContributionLinkType(contribution) == "contribution"

TransactionLinkType(transaction) ==
  IF transaction.potentialConflict = TRUE THEN "conflict" ELSE "contribution"

\* what the loop body adds for one organization
OrganizationGroup(organization, allContributions) ==
  LET rows == SelectSeq(allContributions,
                        LAMBDA c : c.organization = organization)
      nodeId == <<"organization-", ReplaceWhitespaceWithDash[organization]>>
  IN [node |-> [id |-> nodeId, name |-> organization,
                type |-> "organization",
                group |-> OrganizationIndustry(rows),
                amount |-> TotalAmount(rows)],
      links |-> GroupLinks(nodeId, rows, ContributionLinkType)]

\* what the loop body adds for one stock
StockGroup(stockName, allTransactions) ==
  LET rows == SelectSeq(allTransactions, LAMBDA t : t.stockName = stockName)
      nodeId == <<"stock-", ReplaceWhitespaceWithDash[stockName]>>
  IN [node |-> [id |-> nodeId, name |-> stockName, type |-> "organization",
                group |-> "Stock", amount |-> TotalAmount(rows)],
      links |-> GroupLinks(nodeId, rows, TransactionLinkType)]

\* maxNodes is a number that the node count has reached; NaN is reached by
\* no count
ReachedMaxNodes(length, maxNodes) == ~maxNodes.nan /\ length >= maxNodes.val

\* the loop over Object.entries of a grouping, with its break
RECURSIVE AddGroups(_, _, _)
AddGroups(groups, networkData, maxNodes) ==
  IF groups = <<>> THEN networkData
  ELSE IF ReachedMaxNodes(Len(networkData.nodes), maxNodes)
       THEN networkData
       ELSE LET group == Head(groups)
                known == \E k \in DOMAIN networkData.nodes :
                           networkData.nodes[k].id = group.node.id
            IN AddGroups(Tail(groups),
                 [nodes |-> IF known THEN networkData.nodes
                            ELSE Append(networkData.nodes, group.node),
                  links |-> networkData.links \o group.links],
                 maxNodes)

generateNetworkData(politicianIds, includeContributions, includeStocks, maxNodes) ==
  LET selected == IF Len(politicianIds) > 0
                  THEN FoundPoliticians(politicianIds)
                  ELSE politicians
      allContributions == RowsOfPoliticians(contributions, selected)
      allTransactions == RowsOfPoliticians(stockTransactions, selected)
      organizations == GroupKeys(allContributions, "organization")
      stocks == GroupKeys(allTransactions, "stockName")
      organizationGroups ==
        [k \in DOMAIN organizations |->
           OrganizationGroup(organizations[k], allContributions)]
      stockGroups ==
        [k \in DOMAIN stocks |-> StockGroup(stocks[k], allTransactions)]
      withPoliticians == [nodes |-> PoliticianNodes(selected), links |-> <<>>]
      withOrganizations ==
        IF includeContributions
        THEN AddGroups(organizationGroups, withPoliticians, maxNodes)
        ELSE withPoliticians
  IN IF includeStocks
     THEN AddGroups(stockGroups, withOrganizations, maxNodes)
     ELSE withOrganizations

\* include_contributions === undefined ? true : include_contributions === 'true'
IncludeFlag(param) == param = Null \/ param = "true"

\* GET /api/network; politician_ids is given as the list its split gives
GetNetworkData(politician_ids, include_contributions, include_stocks, max_nodes) ==
  LET politicianIds == IF politician_ids = Null THEN <<>>
                       ELSE ParsedIds(politician_ids)
      maxNodes == IF max_nodes = Null
                  THEN [nan |-> FALSE, val |-> DefaultMaxNodes]
                  ELSE ParseInt(max_nodes)
      networkData == generateNetworkData(politicianIds,
                       IncludeFlag(include_contributions),
                       IncludeFlag(include_stocks), maxNodes)
  IN /\ response' = [route |-> "GET /api/network",
                     politician_ids |-> politician_ids,
                     include_contributions |-> include_contributions,
                     include_stocks |-> include_stocks,
                     max_nodes |-> max_nodes, status |-> 200,
                     nodes |-> networkData.nodes,
                     links |-> networkData.links]
     /\ UNCHANGED <<clientVars, pipelineVars, politicians, politicianAliases,
                    votes, contributions, stockTransactions, runs, resolved>>

\* contributions of two politicians from two organizations, one of them
\* written in two ways, and one whose amount is not a number
NetworkDataContributionInputs ==
  {OrgContributionInput(1, "ACME PAC", "2023-01-31", "5000"),
   OrgContributionInput(2, "ACME-PAC", "2023-01-31", "n/a"),
   OrgContributionInput(1, "Globex", "2023-02-01", "15000")}

NetworkDataTransactionInputs ==
  {TransactionInput(1, Bill1, "2023-02-01", "5000", TRUE)}

PoliticianIdsParams == {Null, <<"1">>, <<"2", "1">>, <<"abc">>}
IncludeParams == {Null, "false"}
MaxNodesParams == {Null, "1", "2", "abc"}

PostContributionNetworkData ==
  \E body \in NetworkDataContributionInputs : PostContribution(body)
PostTransactionNetworkData ==
  \E body \in NetworkDataTransactionInputs : PostStockTransaction(body)
GetNetworkDataAny ==
  \E politician_ids \in PoliticianIdsParams,
     include_contributions \in IncludeParams,
     include_stocks \in IncludeParams, max_nodes \in MaxNodesParams :
    GetNetworkData(politician_ids, include_contributions, include_stocks,
                   max_nodes)

NextNetworkData ==
  \/ PostPoliticianAny
  \/ PostContributionNetworkData
  \/ PostTransactionNetworkData
  \/ GetNetworkDataAny

SpecNetworkData == Init /\ [][NextNetworkData]_vars

(***************************************************************************)
(* The MoneyTimeline component: useInfiniteQuery asks for page 1 and then, *)
(* at each "Load more", for the next_page of the last page it has, while   *)
(* votes, contributions and stock transactions go on being posted.  The    *)
(* component asks for pages of 10; the model's pages are ClientPageSize    *)
(* long so that its few records fill several of them.                      *)
(***************************************************************************)
ClientPolitician == "1"
ClientPageSize == "2"

\* `${pageParam}`: the decimal text of a number
NumeralOf(n) == CHOOSE x \in DOMAIN Numerals : Numerals[x] = n

ClientVoteInputs == {VoteInput(1, Bill1, "2023-01-01")}
ClientContributionInputs ==
  {ContributionInput(1, "2023-01-31", "15000"),
   ContributionInput(1, BadDate, "5000")}
ClientTransactionInputs ==
  {TransactionInput(1, Bill1, "2023-03-01", "5000", FALSE)}

\* the uids of the items of a page
UidsOf(items) == [k \in DOMAIN items |-> items[k].uid]

\* queryFn and getNextPageParam: the page is added to data.pages, and
\* lastPage.next_page || undefined says whether there is a next one
FetchPage(pageParam) ==
  LET page == TimelineResponse(ClientPolitician, pageParam, ClientPageSize, Null)
  IN /\ page.status = 200
     /\ response' = page
     /\ timelineQuery' =
          [status |-> IF page.next_page.null THEN "complete" ELSE "hasNextPage",
           pages |-> Append(timelineQuery.pages, UidsOf(page.items)),
           nextPage |-> IF page.next_page.null THEN Null
                        ELSE NumeralOf(page.next_page.val)]

\* the component mounts: the first page, pageParam = 1
FetchFirstPage ==
  /\ timelineQuery.status = "idle"
  /\ FetchPage("1")
  /\ existedBefore' =
       {item.uid : item \in Range(TimelineItems(ParseInt(ClientPolitician).val))}
  /\ UNCHANGED <<pipelineVars, politicians, politicianAliases, votes,
                 contributions, stockTransactions, runs, resolved>>

\* "Load more": fetchNextPage
FetchNextPage ==
  /\ timelineQuery.status = "hasNextPage"
  /\ FetchPage(timelineQuery.nextPage)
  /\ UNCHANGED <<pipelineVars, existedBefore, politicians, politicianAliases,
                 votes, contributions, stockTransactions, runs, resolved>>

PostVoteClient == \E body \in ClientVoteInputs : PostVote(body)
PostContributionClient ==
  \E body \in ClientContributionInputs : PostContribution(body)
PostTransactionClient ==
  \E body \in ClientTransactionInputs : PostStockTransaction(body)

NextClient ==
  \/ PostPoliticianAny
  \/ PostVoteClient
  \/ PostContributionClient
  \/ PostTransactionClient
  \/ FetchFirstPage
  \/ FetchNextPage

SpecClient == Init /\ [][NextClient]_vars

(***************************************************************************)
(* Pipeline runs of data-sync.ts.  A trigger handler creates the run       *)
(* record and schedules the import as a background task; the task reports  *)
(* through updatePipelineStatus, every await of which is a step of its     *)
(* own; the status handler answers from activePipelines and, when the id   *)
(* is not there, from the pipeline_runs table.  The notes column holds     *)
(* JSON text: it is modelled by the record it is the text of, so two notes *)
(* are the same text exactly when they are the same record.                *)
(***************************************************************************)
PipelineTypes == {"fec", "congress", "stock"}

\* generatePipelineId: type, time and a random number; the n-th id made
GeneratedIds ==
  [type \in PipelineTypes |->
     [n \in 1..(MaxPipelines + 1) |->
        IF type = "fec" THEN <<"fec_1", "fec_2", "fec_3">>[n]
        ELSE IF type = "congress"
             THEN <<"congress_1", "congress_2", "congress_3">>[n]
             ELSE <<"stock_1", "stock_2", "stock_3">>[n]]]

generatePipelineId(type) == GeneratedIds[type][Len(pipelineRuns) + 1]

PipelineIds ==
  {GeneratedIds[type][n] : type \in PipelineTypes, n \in 1..MaxPipelines}

\* JSON.stringify({ id: pipelineId })
NotesOfId(pipelineId) == [id |-> pipelineId]

\* what the import of a pipeline can give: importAllFecData returns a
\* result with success true or false, or throws; the placeholder imports of
\* congress and stock wait on a timer and go on
ImportResults(type) ==
  IF type = "fec" THEN {"success", "failure", "throws"} ELSE {"success"}

\* the last updatePipelineStatus of a run: its status, progress and details
FinalUpdateZeroProgress(result) ==
  IF result = "success"
  THEN [status |-> "completed", progress |-> 0, details |-> "completed"]
  ELSE IF result = "failure"
       THEN [status |-> "failed", progress |-> 0, details |-> "failed"]
       ELSE [status |-> "failed", progress |-> 0, details |-> "error"]

FinalUpdate(result) ==
  IF result = "success"
  THEN [status |-> "completed", progress |-> 1, details |-> "completed"]
  ELSE IF result = "failure"
       THEN [status |-> "failed", progress |-> 0, details |-> "failed"]
       ELSE [status |-> "failed", progress |-> 0, details |-> "error"]

\* the first updatePipelineStatus of a run
StartUpdate == [status |-> "running", progress |-> 0, details |-> "starting"]

\* createPipelineRun when the insert is done
createPipelineRun(pipelineId, pipelineType) ==
  /\ pipelineRuns' = Append(pipelineRuns,
       [id |-> Len(pipelineRuns) + 1, pipelineName |-> pipelineType,
        status |-> "running", ended |-> FALSE, rowsProcessed |-> 0,
        notes |-> NotesOfId(pipelineId)])
  /\ activePipelines' = (pipelineId :>
       [id |-> pipelineId, pipelineType |-> pipelineType,
        status |-> "running", progress |-> 0, completed |-> FALSE,
        details |-> "none"]) @@ activePipelines

\* handleTriggerFecPipeline, handleTriggerCongressPipeline and
\* handleTriggerStockPipeline when the run record is created
TriggerPipeline(type) ==
  LET pipelineId == generatePipelineId(type)
  IN /\ Len(pipelineRuns) < MaxPipelines
     /\ createPipelineRun(pipelineId, type)
     /\ tasks' = (pipelineId :>
          [pc |-> "start", type |-> type, row |-> 0, update |-> StartUpdate])
          @@ tasks
     /\ response' = [route |-> "POST /api/pipelines/:type", type |-> type,
                     status |-> 200, body |-> "success",
                     pipelineId |-> pipelineId]
     /\ UNCHANGED <<clientVars,
                    politicians, politicianAliases, votes, contributions,
                    stockTransactions, runs, resolved>>

\* the same handlers when the insert of createPipelineRun rejects
TriggerPipelineRejected(type) ==
  /\ Len(pipelineRuns) < MaxPipelines
  /\ response' = [route |-> "POST /api/pipelines/:type", type |-> type,
                  status |-> 500, body |-> "error"]
  /\ UNCHANGED <<clientVars,
                 politicians, politicianAliases, votes, contributions,
                 stockTransactions, runs, resolved, pipelineRuns,
                 activePipelines, tasks>>

\* the in-memory part of updatePipelineStatus
UpdateInMemory(pipelineId, update) ==
  IF pipelineId \in DOMAIN activePipelines
  THEN [activePipelines EXCEPT ![pipelineId] =
          [@ EXCEPT !.status = update.status, !.progress = update.progress,
                    !.completed = (update.status = "completed"),
                    !.details = update.details]]
  ELSE activePipelines

\* where the task goes when its updatePipelineStatus has returned
AfterUpdate(pc) == IF pc \in {"start", "updateRunning"} THEN "import" ELSE "done"

\* db.query.pipelineRuns.findFirst of updatePipelineStatus: the rows whose
\* notes are the text JSON.stringify({ id: pipelineId })
FindFirst(pipelineId) ==
  {k \in DOMAIN pipelineRuns : pipelineRuns[k].notes = NotesOfId(pipelineId)}

\* the first of the rows a query gives
FirstRow(found) == CHOOSE k \in found : \A j \in found : k <= j

\* the background task up to the answer of findFirst; with no row found the
\* database update is skipped
FindPipelineRun(pipelineId) ==
  /\ pipelineId \in DOMAIN tasks
  /\ tasks[pipelineId].pc \in {"start", "final"}
  /\ LET task == tasks[pipelineId]
         found == FindFirst(pipelineId)
     IN IF found = {}
        THEN /\ activePipelines' = UpdateInMemory(pipelineId, task.update)
             /\ tasks' = [tasks EXCEPT ![pipelineId].pc = AfterUpdate(task.pc)]
        ELSE /\ tasks' = [tasks EXCEPT
                  ![pipelineId].pc =
                     IF task.pc = "start" THEN "updateRunning"
                     ELSE "updateFinal",
                  ![pipelineId].row = FirstRow(found)]
             /\ UNCHANGED activePipelines
  /\ response' = response
  /\ UNCHANGED <<clientVars,
                 politicians, politicianAliases, votes, contributions,
                 stockTransactions, runs, resolved, pipelineRuns>>

\* db.update of updatePipelineStatus and the in-memory update after it
UpdatePipelineRun(pipelineId) ==
  /\ pipelineId \in DOMAIN tasks
  /\ tasks[pipelineId].pc \in {"updateRunning", "updateFinal"}
  /\ LET task == tasks[pipelineId]
         update == task.update
     IN /\ pipelineRuns' = [pipelineRuns EXCEPT ![task.row] =
             [@ EXCEPT !.status = update.status,
                       !.ended = (@ \/ update.status = "completed"),
                       !.rowsProcessed = update.progress * 100,
                       !.notes = [id |-> pipelineId,
                                  progress |-> update.progress,
                                  details |-> update.details]]]
        /\ activePipelines' = UpdateInMemory(pipelineId, update)
        /\ tasks' = [tasks EXCEPT ![pipelineId].pc = AfterUpdate(task.pc)]
  /\ response' = response
  /\ UNCHANGED <<clientVars,
                 politicians, politicianAliases, votes, contributions,
                 stockTransactions, runs, resolved>>

\* a database call of updatePipelineStatus rejects: its catch returns false
\* and the task goes on, nothing written
RejectPipelineCall(pipelineId) ==
  /\ pipelineId \in DOMAIN tasks
  /\ tasks[pipelineId].pc \in {"start", "updateRunning", "final", "updateFinal"}
  /\ tasks' = [tasks EXCEPT ![pipelineId].pc = AfterUpdate(tasks[pipelineId].pc)]
  /\ response' = response
  /\ UNCHANGED <<clientVars,
                 politicians, politicianAliases, votes, contributions,
                 stockTransactions, runs, resolved, pipelineRuns,
                 activePipelines>>

\* the import of the run returns or throws; the task calls its last
\* updatePipelineStatus
ImportReturns(pipelineId) ==
  /\ pipelineId \in DOMAIN tasks
  /\ tasks[pipelineId].pc = "import"
  /\ \E result \in ImportResults(tasks[pipelineId].type) :
       tasks' = [tasks EXCEPT ![pipelineId].pc = "final",
                              ![pipelineId].update = FinalUpdate(result)]
  /\ response' = response
  /\ UNCHANGED <<clientVars,
                 politicians, politicianAliases, votes, contributions,
                 stockTransactions, runs, resolved, pipelineRuns,
                 activePipelines>>

\* the loop of handleGetPipelineStatus over the rows: the first one whose
\* notes parse to an object with this id
MatchingRunByNotesText(pipelineId) ==
  {k \in DOMAIN pipelineRuns : pipelineRuns[k].notes = NotesOfId(pipelineId)}

MatchingRun(pipelineId) ==
  {k \in DOMAIN pipelineRuns : pipelineRuns[k].notes.id = pipelineId}

\* notes.progress || 0 and notes.details || {}
NotesOr(notes, key, dflt) == IF key \in DOMAIN notes THEN notes[key] ELSE dflt

StatusResponse(pipelineId) ==
  LET request == [route |-> "GET /api/pipelines/:id/status",
                  id |-> pipelineId]
  IN IF pipelineId \in DOMAIN activePipelines
     THEN LET entry == activePipelines[pipelineId]
          IN request @@
             [status |-> 200, body |-> entry.status, from |-> "memory",
              pipeline |-> entry.pipelineType, progress |-> entry.progress,
              completed |-> entry.completed, details |-> entry.details]
     ELSE IF MatchingRun(pipelineId) = {}
          THEN request @@ [status |-> 404, body |-> "error"]
          ELSE LET matchingRun == pipelineRuns[FirstRow(MatchingRun(pipelineId))]
               IN request @@
                  [status |-> 200, body |-> matchingRun.status,
                   from |-> "database",
                   pipeline |-> matchingRun.pipelineName,
                   progress |-> NotesOr(matchingRun.notes, "progress", 0),
                   completed |-> matchingRun.ended,
                   details |-> NotesOr(matchingRun.notes, "details", "none")]

\* handleGetPipelineStatus
GetPipelineStatus(pipelineId) ==
  /\ response' = StatusResponse(pipelineId)
  /\ UNCHANGED <<clientVars,
                 politicians, politicianAliases, votes, contributions,
                 stockTransactions, runs, resolved, pipelineRuns,
                 activePipelines, tasks>>

\* handleGetPipelineStatus when the id is not in memory and findMany rejects
GetPipelineStatusRejected(pipelineId) ==
  /\ pipelineId \notin DOMAIN activePipelines
  /\ response' = [route |-> "GET /api/pipelines/:id/status",
                  id |-> pipelineId, status |-> 500, body |-> "error"]
  /\ UNCHANGED <<clientVars,
                 politicians, politicianAliases, votes, contributions,
                 stockTransactions, runs, resolved, pipelineRuns,
                 activePipelines, tasks>>

\* the server process starts again: the module state of data-sync.ts is
\* new, the timers and tasks of the old process are gone, the table stays
Restart ==
  /\ activePipelines # <<>>
  /\ activePipelines' = <<>>
  /\ tasks' = [id \in DOMAIN tasks |->
                 IF tasks[id].pc = "done" THEN tasks[id]
                 ELSE [tasks[id] EXCEPT !.pc = "lost"]]
  /\ response' = NoResponse
  /\ UNCHANGED <<clientVars,
                 politicians, politicianAliases, votes, contributions,
                 stockTransactions, runs, resolved, pipelineRuns>>

TriggerAny == \E type \in PipelineTypes : TriggerPipeline(type)
TriggerAnyRejected == \E type \in PipelineTypes : TriggerPipelineRejected(type)
FindAnyPipelineRun == \E id \in PipelineIds : FindPipelineRun(id)
UpdateAnyPipelineRun == \E id \in PipelineIds : UpdatePipelineRun(id)
RejectAnyPipelineCall == \E id \in PipelineIds : RejectPipelineCall(id)
AnyImportReturns == \E id \in PipelineIds : ImportReturns(id)
GetAnyPipelineStatus == \E id \in PipelineIds : GetPipelineStatus(id)
GetAnyPipelineStatusRejected ==
  \E id \in PipelineIds : GetPipelineStatusRejected(id)

\* one step of the background task of a run
TaskStep(pipelineId) ==
  \/ FindPipelineRun(pipelineId)
  \/ UpdatePipelineRun(pipelineId)
  \/ RejectPipelineCall(pipelineId)
  \/ ImportReturns(pipelineId)

NextPipelines ==
  \/ TriggerAny
  \/ TriggerAnyRejected
  \/ FindAnyPipelineRun
  \/ UpdateAnyPipelineRun
  \/ RejectAnyPipelineCall
  \/ AnyImportReturns
  \/ GetAnyPipelineStatus
  \/ GetAnyPipelineStatusRejected
  \/ Restart

SpecPipelines == Init /\ [][NextPipelines]_vars

\* the process stays up: every scheduled task runs, every database call and
\* every import settles
NextRunning ==
  \/ TriggerAny
  \/ TriggerAnyRejected
  \/ FindAnyPipelineRun
  \/ UpdateAnyPipelineRun
  \/ RejectAnyPipelineCall
  \/ AnyImportReturns
  \/ GetAnyPipelineStatus
  \/ GetAnyPipelineStatusRejected

SpecPipelinesFair ==
  /\ Init
  /\ [][NextRunning]_vars
  /\ \A id \in PipelineIds : WF_vars(TaskStep(id))

(***************************************************************************)
(* The functions of data-mappers.ts applied to raw records and strings;    *)
(* the response holds the argument and what the call gave.                 *)
(***************************************************************************)
RawNames ==
  {<<"SMITH", ",", " ", "JOHN">>,
   <<"JANE", " ", "DOE">>,
   <<"KING", ",", " ", "MARTIN", ",", " ", "JR">>,
   <<"LEE", ",", "ANN">>,
   <<>>}

NoProperty == [key \in {} |-> ""]

\* candidate records of the FEC API; any property may be missing or empty
RawCandidates ==
  {name @@ party @@ state :
     name \in {NoProperty} \cup {[name |-> x] : x \in RawNames},
     party \in {NoProperty} \cup {[party |-> x] : x \in {"", "DEM", "XYZ"}},
     state \in {NoProperty} \cup {[state |-> x] : x \in {"", "CA"}}}

\* schedule A rows; any property may be missing or empty
RawDonations ==
  {name @@ amount @@ date @@ occupation :
     name \in {NoProperty, [contributor_name |-> "ACME PAC"]},
     amount \in {NoProperty} \cup
       {[contribution_receipt_amount |-> x] : x \in {"", "0", "15000", "abc"}},
     date \in {NoProperty, [contribution_receipt_date |-> "2023-03-01"]},
     occupation \in {NoProperty, [contributor_occupation |-> "CEO"]}}

PartyCodeInputs ==
  DOMAIN partyMap \cup {"", "XYZ", "Democrat", "constructor", "toString"}

StateCodeInputs ==
  DOMAIN stateMap \cup {"", "ZZ", "California", "constructor", "toString"}

CallMapFecCandidateToPolitician(fecCandidate) ==
  /\ response' =
       [route |-> "mapFecCandidateToPolitician", input |-> fecCandidate] @@
       (IF mapFecCandidateToPoliticianThrows(fecCandidate)
        THEN [threw |-> TRUE]
        ELSE [threw |-> FALSE,
              value |-> mapFecCandidateToPolitician(fecCandidate)])
  /\ UNCHANGED <<clientVars, pipelineVars,
                 politicians, politicianAliases, votes, contributions,
                 stockTransactions, runs, resolved>>

CallMapFecDonationToContribution(fecDonation, politicianId) ==
  /\ response' =
       [route |-> "mapFecDonationToContribution", input |-> fecDonation,
        threw |-> FALSE,
        value |-> mapFecDonationToContribution(fecDonation, politicianId)]
  /\ UNCHANGED <<clientVars, pipelineVars,
                 politicians, politicianAliases, votes, contributions,
                 stockTransactions, runs, resolved>>

CallMapPartyAbbreviation(partyCode) ==
  /\ response' =
       [route |-> "mapPartyAbbreviation", input |-> partyCode,
        threw |-> FALSE, value |-> mapPartyAbbreviation(partyCode),
        again |-> mapPartyAbbreviation(mapPartyAbbreviation(partyCode))]
  /\ UNCHANGED <<clientVars, pipelineVars,
                 politicians, politicianAliases, votes, contributions,
                 stockTransactions, runs, resolved>>

CallNormalizeStateCode(stateCode) ==
  /\ response' =
       [route |-> "normalizeStateCode", input |-> stateCode,
        threw |-> FALSE, value |-> normalizeStateCode(stateCode),
        again |-> normalizeStateCode(normalizeStateCode(stateCode))]
  /\ UNCHANGED <<clientVars, pipelineVars,
                 politicians, politicianAliases, votes, contributions,
                 stockTransactions, runs, resolved>>

MapCandidate == \E raw \in RawCandidates : CallMapFecCandidateToPolitician(raw)
MapDonation == \E raw \in RawDonations : CallMapFecDonationToContribution(raw, 1)
MapParty == \E code \in PartyCodeInputs : CallMapPartyAbbreviation(code)
MapState == \E code \in StateCodeInputs : CallNormalizeStateCode(code)

NextMappers ==
  \/ MapCandidate
  \/ MapDonation
  \/ MapParty
  \/ MapState

SpecMappers == Init /\ [][NextMappers]_vars

(***************************************************************************)
(* Rows and resolutions of one FEC candidate id.                           *)
(***************************************************************************)
PoliticianRowsOf(c) == {p \in Range(politicians) : p.fecCandidateId = c}
AliasRowsOf(c) ==
  {a \in Range(politicianAliases) : a.source = "fec" /\ a.externalId = c}
ResolvedIdsOf(c) == {pair[2] : pair \in {q \in resolved : q[1] = c}}

\* the runs that have returned and had candidate c among their members
ReturnedRunsWith(c) ==
  {r \in Runs : runs[r].pc = "done" /\
     \E k \in DOMAIN runs[r].members : runs[r].members[k].candidate_id = c}

IsConflictsOk ==
  /\ response.route = "GET /api/politicians/:id/conflicts"
  /\ response.status = 200

RequestedId == ParseInt(response.id).val

\* the window the endpoint works with: the days parameter, 30 by default
WindowOfResponse == ParseIntOr(response.days, DefaultDays)

ReturnedPairs ==
  {<<response.body[k].trade_id, response.body[k].bill_id>> :
     k \in DOMAIN response.body}

\* (transaction, vote) pairs of the requested politician on the same bill
SameBillPairs ==
  {pair \in Range(stockTransactions) \X Range(votes) :
     /\ pair[1].politicianId = RequestedId
     /\ pair[2].politicianId = RequestedId
     /\ pair[1].relatedBill \notin {Null, ""}
     /\ pair[2].billName = pair[1].relatedBill}

\* |voteDate - tradeDate| in ticks
TickDistance(pair) ==
  Abs(GetTime(pair[2].voteDate) - GetTime(pair[1].tradeDate))

(***************************************************************************)
(* C4: the window of the conflicts endpoint is inclusive: a transaction    *)
(* and a vote on the same bill exactly window days apart, either way       *)
(* round, are returned, and a pair window + 1 days apart is not.           *)
(***************************************************************************)
C4_WindowInclusive ==
  IsConflictsOk =>
    \A pair \in SameBillPairs :
      /\ TickDistance(pair) = WindowOfResponse * TicksPerDay
           => <<pair[1].id, pair[2].id>> \in ReturnedPairs
      /\ TickDistance(pair) = (WindowOfResponse + 1) * TicksPerDay
           => <<pair[1].id, pair[2].id>> \notin ReturnedPairs

\* one response with a pair on the boundary and a pair one day past it
C4_Witness ==
  /\ IsConflictsOk
  /\ \E inside \in SameBillPairs, outside \in SameBillPairs :
       /\ TickDistance(inside) = WindowOfResponse * TicksPerDay
       /\ GetTime(inside[2].voteDate) < GetTime(inside[1].tradeDate)
       /\ <<inside[1].id, inside[2].id>> \in ReturnedPairs
       /\ TickDistance(outside) = (WindowOfResponse + 1) * TicksPerDay
       /\ <<outside[1].id, outside[2].id>> \notin ReturnedPairs

(***************************************************************************)
(* C7: delta_days of a returned conflict is the ceiling of the absolute    *)
(* difference of vote date and trade date in days: the least whole number  *)
(* of days that covers it, 0 exactly when the two timestamps are equal, at *)
(* least 1 for a non-zero difference of less than a day, and the same for  *)
(* a trade before the vote as for a trade equally long after it.           *)
(***************************************************************************)
EntryTicks(e) == GetTime(e.vote_date) - GetTime(e.trade_date)

C7_DeltaIsCeiling ==
  IsConflictsOk =>
    /\ \A k \in DOMAIN response.body :
         LET e == response.body[k]
             d == Abs(EntryTicks(e))
         IN /\ e.delta_days * TicksPerDay >= d
            /\ (e.delta_days - 1) * TicksPerDay < d
            /\ (e.delta_days = 0) <=> (d = 0)
            /\ (0 < d /\ d < TicksPerDay) => e.delta_days >= 1
    /\ \A j, k \in DOMAIN response.body :
         EntryTicks(response.body[j]) = -EntryTicks(response.body[k])
           => response.body[j].delta_days = response.body[k].delta_days

\* a trade at noon between a vote half a day earlier and one half a day later
C7_Witness ==
  /\ IsConflictsOk
  /\ \E j, k \in DOMAIN response.body :
       /\ EntryTicks(response.body[j]) = -EntryTicks(response.body[k])
       /\ EntryTicks(response.body[j]) > 0
       /\ EntryTicks(response.body[j]) < TicksPerDay
       /\ response.body[j].delta_days = 1
       /\ response.body[k].delta_days = 1

(***************************************************************************)
(* C5: the conflicts endpoint returns the full cross product: every        *)
(* (transaction, vote) pair of the politician on the same bill and within  *)
(* the window has exactly one entry, and there are no other entries, so m  *)
(* transactions and n votes on one bill, all within the window, give m * n *)
(* entries.                                                                *)
(***************************************************************************)
PairsInWindow ==
  {pair \in SameBillPairs :
     TickDistance(pair) <= WindowOfResponse * TicksPerDay}

EntriesOf(pair) ==
  {k \in DOMAIN response.body :
     /\ response.body[k].trade_id = pair[1].id
     /\ response.body[k].bill_id = pair[2].id}

C5_CrossProduct ==
  IsConflictsOk =>
    /\ \A pair \in PairsInWindow : Cardinality(EntriesOf(pair)) = 1
    /\ Len(response.body) = Cardinality(PairsInWindow)

\* two transactions and two votes on one bill, all in the window: 4 entries
C5_Witness ==
  /\ IsConflictsOk
  /\ \E ts \in SUBSET Range(stockTransactions), vs \in SUBSET Range(votes) :
       /\ Cardinality(ts) = 2
       /\ Cardinality(vs) = 2
       /\ ts \X vs \subseteq PairsInWindow
       /\ \A pair \in ts \X vs : Cardinality(EntriesOf(pair)) = 1
  /\ Len(response.body) >= 4

(***************************************************************************)
(* C6: every returned conflict pairs a transaction that has a related bill *)
(* with a vote of the same politician whose bill name equals it and whose  *)
(* distance is within the window; amount and the stored potentialConflict  *)
(* flag decide nothing: transactions that differ in those two fields only  *)
(* are paired with the same votes.                                         *)
(***************************************************************************)
VotesReturnedFor(transaction) ==
  {pair[2] : pair \in {q \in ReturnedPairs : q[1] = transaction.id}}

SameButAmountAndFlag(t1, t2) ==
  /\ t1.politicianId = t2.politicianId
  /\ t1.relatedBill = t2.relatedBill
  /\ t1.tradeDate = t2.tradeDate
  /\ t1.stockName = t2.stockName
  /\ t1.tradeType = t2.tradeType

C6_OnlyBillAndWindow ==
  IsConflictsOk =>
    /\ ReturnedPairs \subseteq
         {<<pair[1].id, pair[2].id>> : pair \in PairsInWindow}
    /\ \A t1, t2 \in Range(stockTransactions) :
         SameButAmountAndFlag(t1, t2)
           => VotesReturnedFor(t1) = VotesReturnedFor(t2)

\* a trade over $100,000 with the flag set is paired with exactly the votes
\* its small, unflagged twin is paired with
C6_Witness ==
  /\ IsConflictsOk
  /\ \E t1, t2 \in Range(stockTransactions) :
       /\ SameButAmountAndFlag(t1, t2)
       /\ ParseFloat(t1.amount).val > 100000
       /\ ParseFloat(t2.amount).val <= 100000
       /\ t1.potentialConflict /\ ~t2.potentialConflict
       /\ VotesReturnedFor(t1) # {}
       /\ VotesReturnedFor(t1) = VotesReturnedFor(t2)

(***************************************************************************)
(* C2 (as claimed): under every interleaving of import runs that meet the  *)
(* same new ('fec', candidate_id), the pair has at most one alias row and  *)
(* one politician row, and every run resolves it to the same politician.   *)
(***************************************************************************)
C2_OnePoliticianPerExternalId ==
  \A c \in CandidateIds :
    /\ Cardinality(AliasRowsOf(c)) <= 1
    /\ Cardinality(PoliticianRowsOf(c)) <= 1
    /\ Cardinality(ResolvedIdsOf(c)) <= 1

(***************************************************************************)
(* C3 (as claimed): when a single-candidate import has answered with       *)
(* success, exactly one politician row exists for that candidate, however  *)
(* often the candidate was imported before.                                *)
(***************************************************************************)
\* the rows createPolitician wrote for the mapped record of candidate c
ImportedRowsOf(c) ==
  {p \in Range(politicians) :
     \E fecCandidate \in FecCandidates :
       /\ fecCandidate.candidate_id = c
       /\ p = [id |-> p.id] @@ mapFecCandidateToPolitician(fecCandidate)}

C3_NoDuplicateOnReimport ==
  (/\ response.route = "POST /api/import/fec/politician/:id"
   /\ response.status = 200)
    => Cardinality(ImportedRowsOf(response.id)) = 1

(***************************************************************************)
(* The last response, when it is a successful timeline response.           *)
(***************************************************************************)
IsTimelineOk ==
  /\ response.route = "GET /api/politicians/:id/timeline"
  /\ response.status = 200

IsEarlierTimelineOk == IsTimelineOk /\ response.module = "unnamed/part_015"

NonIncreasingDates(items) ==
  \A i, j \in DOMAIN items :
    i < j => GetTime(items[i].date) >= GetTime(items[j].date)

NonDecreasingDates(items) ==
  \A i, j \in DOMAIN items :
    i < j => GetTime(items[i].date) <= GetTime(items[j].date)

(***************************************************************************)
(* C8: the merged timeline holds every vote, contribution and stock        *)
(* transaction of the requested politician exactly once and nothing else;  *)
(* each item has the type tag of its kind, the date of its record          *)
(* (voteDate, contributionDate, tradeDate) and an amount that is null for  *)
(* a vote and the record's amount otherwise.                               *)
(***************************************************************************)
ItemsFor(type, row) ==
  {k \in DOMAIN response.items :
     response.items[k].type = type /\ response.items[k].data = row}

RowsOfRequested(table) ==
  {row \in Range(table) : row.politicianId = RequestedId}

C8_MergedTimeline ==
  (IsEarlierTimelineOk /\ response.total = Len(response.items)) =>
    /\ \A v \in RowsOfRequested(votes) :
         /\ Cardinality(ItemsFor("vote", v)) = 1
         /\ \A k \in ItemsFor("vote", v) :
              /\ response.items[k].date = v.voteDate
              /\ response.items[k].amount = Null
    /\ \A c \in RowsOfRequested(contributions) :
         /\ Cardinality(ItemsFor("contribution", c)) = 1
         /\ \A k \in ItemsFor("contribution", c) :
              /\ response.items[k].date = c.contributionDate
              /\ response.items[k].amount = c.amount
    /\ \A t \in RowsOfRequested(stockTransactions) :
         /\ Cardinality(ItemsFor("stock_transaction", t)) = 1
         /\ \A k \in ItemsFor("stock_transaction", t) :
              /\ response.items[k].date = t.tradeDate
              /\ response.items[k].amount = t.amount
    /\ Len(response.items) =
         Cardinality(RowsOfRequested(votes))
         + Cardinality(RowsOfRequested(contributions))
         + Cardinality(RowsOfRequested(stockTransactions))

\* a timeline with an item of each kind while another politician has a vote
C8_Witness ==
  /\ IsEarlierTimelineOk
  /\ \E k1, k2, k3 \in DOMAIN response.items :
       /\ response.items[k1].type = "vote"
       /\ response.items[k2].type = "contribution"
       /\ response.items[k3].type = "stock_transaction"
  /\ \E v \in Range(votes) : v.politicianId # RequestedId
  /\ response.total = 3

(***************************************************************************)
(* C9 (as claimed): without a sort parameter the timeline endpoint returns *)
(* the items in non-increasing order of date, most recent first.           *)
(***************************************************************************)
C9_DefaultNewestFirst ==
  (IsTimelineOk /\ response.sort = Null) => NonIncreasingDates(response.items)

(***************************************************************************)
(* C10 (as claimed): with sort=asc the timeline items are in               *)
(* non-decreasing order of date, with sort=desc in non-increasing order.   *)
(***************************************************************************)
C10_SortParameter ==
  /\ (IsTimelineOk /\ response.sort = "asc")
       => NonDecreasingDates(response.items)
  /\ (IsTimelineOk /\ response.sort = "desc")
       => NonIncreasingDates(response.items)

(***************************************************************************)
(* The pages 1, 2, ..., total_pages of the timeline the last response is a *)
(* page of, requested with the same page_size over the same data.          *)
(***************************************************************************)
PageQuery == <<"1", "2", "3", "4", "5", "6", "7", "8", "9">>

PagesOfResponse ==
  [k \in 1..response.total_pages |->
     TimelineResponse(response.id, PageQuery[k], response.pageSizeParam,
                      response.sort)]

RECURSIVE ConcatItems(_)
ConcatItems(pages) ==
  IF pages = <<>> THEN <<>>
  ELSE Head(pages).items \o ConcatItems(Tail(pages))

\* the whole list, asked for as one page
WholeTimeline ==
  TimelineResponse(response.id, "1", "30", response.sort).items

(***************************************************************************)
(* C11: for a page_size >= 1 and unchanged data, the items of pages 1, 2,  *)
(* ..., total_pages, put one after the other, are the full merged and      *)
(* sorted list, with no item left out or repeated; every page but the last *)
(* has exactly page_size items and the last has the remainder.             *)
(***************************************************************************)
C11_PaginationExhaustive ==
  (IsEarlierTimelineOk /\ response.page_size >= 1) =>
    LET pages == PagesOfResponse
        all == ConcatItems(pages)
        n == response.total_pages
    IN /\ all = WholeTimeline
       /\ Len(all) = response.total
       /\ \A i, j \in DOMAIN all : i # j => all[i].uid # all[j].uid
       /\ \A k \in 1..(n - 1) : Len(pages[k].items) = response.page_size
       /\ n >= 1 =>
            Len(pages[n].items) = response.total - (n - 1) * response.page_size

\* five items in pages of two: 2, 2 and 1 items, the last page asked for
C11_Witness ==
  /\ IsEarlierTimelineOk
  /\ response.page_size = 2
  /\ response.total = 5
  /\ response.page = 3
  /\ Len(response.items) = 1
  /\ <<Len(PagesOfResponse[1].items), Len(PagesOfResponse[2].items),
       Len(PagesOfResponse[3].items)>> = <<2, 2, 1>>

(***************************************************************************)
(* C12: in every timeline response with page >= 1 and page_size >= 1,      *)
(* total is the number of merged items, total_pages is the ceiling of      *)
(* total / page_size, and next_page is page + 1 exactly when page is less  *)
(* than total_pages and null otherwise: null on the last page, on a page   *)
(* past the end and on an empty timeline, whose items are empty too.       *)
(***************************************************************************)
MergedCount ==
  Cardinality(RowsOfRequested(votes))
  + Cardinality(RowsOfRequested(contributions))
  + Cardinality(RowsOfRequested(stockTransactions))

C12_PaginationFields ==
  (IsEarlierTimelineOk /\ response.page >= 1 /\ response.page_size >= 1) =>
    /\ response.total = MergedCount
    /\ response.total_pages * response.page_size >= response.total
    /\ (response.total_pages - 1) * response.page_size < response.total
    /\ IF response.page < response.total_pages
       THEN response.next_page = [null |-> FALSE, val |-> response.page + 1]
       ELSE response.next_page.null
    /\ response.total = 0 =>
         response.items = <<>> /\ response.total_pages = 0

\* the last of two full pages: as many items as page_size, and no next page
C12_Witness ==
  /\ IsEarlierTimelineOk
  /\ response.page_size = 2
  /\ response.total = 4
  /\ response.page = 2
  /\ response.total_pages = 2
  /\ Len(response.items) = 2
  /\ response.next_page.null

(***************************************************************************)
(* The last response, when it is a successful network response.            *)
(***************************************************************************)
IsNetworkOk ==
  /\ response.route = "GET /api/politicians/:id/network"
  /\ response.status = 200

NDaysOfResponse == ParseIntOr(response.nDaysParam, DefaultNDays)

\* the calendar day of now - windowDays
CutoffDay == UtcDay[response.now] - NDaysOfResponse

LinksDated(date) ==
  {k \in DOMAIN response.links : response.links[k].date = date}

(***************************************************************************)
(* C13 (as claimed): at whatever time of day the request is made, a        *)
(* contribution dated at now - windowDays has a link in the network        *)
(* response, and a contribution dated one day earlier has none.            *)
(***************************************************************************)
C13_CutoffInclusive ==
  IsNetworkOk =>
    \A c \in RowsOfRequested(contributions) :
      /\ UtcDay[c.contributionDate] = CutoffDay
           => LinksDated(c.contributionDate) # {}
      /\ UtcDay[c.contributionDate] = CutoffDay - 1
           => LinksDated(c.contributionDate) = {}

(***************************************************************************)
(* The contributions of the requested politician inside the window, as     *)
(* contributionDate >= now - windowDays reads on instants.                 *)
(***************************************************************************)
InWindow ==
  SelectSeq(contributions,
            LAMBDA c : /\ c.politicianId = RequestedId
                       /\ GetTime(c.contributionDate) >=
                            GetTime(response.now) - NDaysOfResponse * TicksPerDay)

NodesOfType(type) ==
  {k \in DOMAIN response.nodes : response.nodes[k].type = type}

OrganizationNodes(org) ==
  {k \in NodesOfType("organization") : response.nodes[k].label = org}

LinksOf(c) ==
  {k \in DOMAIN response.links :
     /\ response.links[k].source = OrgNodeId(c.organization)
     /\ response.links[k].date = c.contributionDate
     /\ response.links[k].weight = ParseFloat(c.amount)}

SameLink(c) ==
  {k \in DOMAIN InWindow :
     /\ OrgNodeId(InWindow[k].organization) = OrgNodeId(c.organization)
     /\ InWindow[k].contributionDate = c.contributionDate
     /\ InWindow[k].amount = c.amount}

(***************************************************************************)
(* C14: the network response has exactly one politician node, exactly one  *)
(* organization node for every distinct organization among the             *)
(* contributions inside the window and none for other organizations, and   *)
(* exactly one link per contribution inside the window, weighted with the  *)
(* contribution's amount: k contributions of one organization give k       *)
(* parallel links.                                                         *)
(***************************************************************************)
C14_NodesAndLinks ==
  IsNetworkOk =>
    /\ Cardinality(NodesOfType("politician")) = 1
    /\ \A k \in NodesOfType("politician") :
         response.nodes[k].id = <<"p", RequestedId>>
    /\ \A c \in Range(InWindow) :
         /\ Cardinality(OrganizationNodes(c.organization)) = 1
         /\ Cardinality(LinksOf(c)) = Cardinality(SameLink(c))
    /\ \A k \in NodesOfType("organization") :
         \E c \in Range(InWindow) : c.organization = response.nodes[k].label
    /\ Len(response.nodes) =
         1 + Cardinality({c.organization : c \in Range(InWindow)})
    /\ Len(response.links) = Len(InWindow)
    /\ \A k \in DOMAIN response.links :
         /\ response.links[k].target = <<"p", RequestedId>>
         /\ ~response.links[k].weight.nan

\* two contributions of one organization inside the window: one node for
\* it and two links from it, with the two amounts
C14_Witness ==
  /\ IsNetworkOk
  /\ Len(response.links) = 2
  /\ response.links[1].source = response.links[2].source
  /\ response.links[1].weight # response.links[2].weight
  /\ Cardinality(NodesOfType("organization")) = 1
  /\ Len(InWindow) = 2

(***************************************************************************)
(* The last response, when it is the outcome of a call of a mapper.        *)
(***************************************************************************)
Mappers ==
  {"mapFecCandidateToPolitician", "mapFecDonationToContribution",
   "mapPartyAbbreviation", "normalizeStateCode"}

IsCallOf(function) == response.route = function

(***************************************************************************)
(* C15 (as claimed): every mapper is total: for every raw record or        *)
(* string, records with a missing or empty name, party, state, amount or   *)
(* date among them, the call returns a value and does not throw.           *)
(***************************************************************************)
C15_MappersTotal ==
  \A function \in Mappers : IsCallOf(function) => ~response.threw

(***************************************************************************)
(* C16 (as claimed): mapPartyAbbreviation and normalizeStateCode give the  *)
(* table's full name for every code of their table and give back the input *)
(* unchanged for every other string, so that applying either twice gives   *)
(* what applying it once gives.                                            *)
(***************************************************************************)
C16_TableOrPassThrough ==
  /\ IsCallOf("mapPartyAbbreviation") =>
       /\ response.input \in DOMAIN partyMap
            => response.value = partyMap[response.input]
       /\ response.input \notin DOMAIN partyMap
            => response.value = response.input
       /\ response.again = response.value
  /\ IsCallOf("normalizeStateCode") =>
       /\ response.input \in DOMAIN stateMap
            => response.value = stateMap[response.input]
       /\ response.input \notin DOMAIN stateMap
            => response.value = response.input
       /\ response.again = response.value

(***************************************************************************)
(* C17 (as claimed): a politician row written by an FEC import never holds *)
(* one of the mapped abbreviations (DEM/D, REP/R, IND/I, LIB/L, GRE/G,     *)
(* CON) as its party: the full party name is stored instead.               *)
(***************************************************************************)
C17_PartyStoredAsFullName ==
  \A p \in Range(politicians) : p.party \notin DOMAIN partyMap

(***************************************************************************)
(* C18 (as claimed): the name is cut at its first comma only: lastName is  *)
(* the text before the first comma and firstName all of the text after it, *)
(* later commas included (white space around the two parts aside); a name  *)
(* without a comma is the lastName as a whole, and firstName is empty.     *)
(***************************************************************************)
FirstComma(name) == IndexOfFrom(name, <<",">>, 1)

C18_SplitAtFirstComma ==
  (IsCallOf("mapFecCandidateToPolitician") /\ ~response.threw) =>
    LET name == response.input.name
        i == FirstComma(name)
    IN IF i = 0
       THEN /\ response.value.lastName = name
            /\ response.value.firstName = <<>>
       ELSE /\ Trim(response.value.lastName) = Trim(SubSeq(name, 1, i - 1))
            /\ Trim(response.value.firstName) =
                 Trim(SubSeq(name, i + 1, Len(name)))

(***************************************************************************)
(* C19 (as claimed): a raw contribution whose amount is missing or is not  *)
(* a valid number is still mapped to a contribution, with amount zero;     *)
(* a valid numeric amount is carried through.                              *)
(***************************************************************************)
C19_InvalidAmountIsZero ==
  IsCallOf("mapFecDonationToContribution") =>
    /\ ~response.threw
    /\ IF ParseFloat(OrEmpty(response.input, "contribution_receipt_amount")).nan
       THEN response.value.amount = "0"
       ELSE response.value.amount = response.input.contribution_receipt_amount

(***************************************************************************)
(* C20 (as claimed): a failure while one record of a batch is processed    *)
(* does not abort the batch: the records are processed one after the other *)
(* to the end, a failed record leaves no partial row behind (no politician *)
(* row without its alias row), and the run reports importedCount +         *)
(* updatedCount + errorCount equal to the number of records processed.     *)
(***************************************************************************)
\* the run is between two records, or has returned
BetweenRecords(r) == runs[r].pc \in {"findAlias", "done"}

PoliticiansWithoutAlias ==
  {p \in Range(politicians) :
     \A a \in Range(politicianAliases) : a.politicianId # p.id}

C20_FailureIsolated ==
  \A r \in Runs :
    /\ BetweenRecords(r) =>
         runs[r].importedCount + runs[r].updatedCount + runs[r].errorCount
           = runs[r].i - 1
    /\ runs[r].pc = "done" => runs[r].i = Len(runs[r].members) + 1
    /\ (\A q \in Runs : runs[q].pc = "idle" \/ BetweenRecords(q))
         => PoliticiansWithoutAlias = {}

(***************************************************************************)
(* C21 (as claimed): a record whose date cannot be parsed is left out of   *)
(* the output of the timeline, conflicts and network endpoints, and the    *)
(* other records are returned as they would be without it: the timeline    *)
(* newest first, every pair of the conflicts within the window, every      *)
(* other contribution of the window as a link.                             *)
(***************************************************************************)
ValidItems(items) == SelectSeq(items, LAMBDA item : ~IsInvalidDate(item.date))

C21_BadDateExcluded ==
  /\ IsEarlierTimelineOk =>
       /\ \A k \in DOMAIN response.items :
            ~IsInvalidDate(response.items[k].date)
       /\ NonIncreasingDates(ValidItems(response.items))
  /\ IsConflictsOk =>
       \A k \in DOMAIN response.body :
         /\ ~IsInvalidDate(response.body[k].vote_date)
         /\ ~IsInvalidDate(response.body[k].trade_date)
  /\ IsNetworkOk =>
       \A k \in DOMAIN response.links :
         ~IsInvalidDate(response.links[k].date)

(***************************************************************************)
(* C22 (as claimed): the timeline, conflicts and network endpoints answer  *)
(* 400 to every politician id that is not a number and 404 to every        *)
(* numeric id that has no politician row; neither is ever answered with    *)
(* 200 and data.                                                           *)
(***************************************************************************)
AggregationRoutes ==
  {"GET /api/politicians/:id/timeline", "GET /api/politicians/:id/conflicts",
   "GET /api/politicians/:id/network"}

\* the id is a decimal numeral
IsNumericId(id) == id \in DOMAIN Numerals

C22_ErrorKinds ==
  response.route \in AggregationRoutes =>
    IF ~IsNumericId(response.id) THEN response.status = 400
    ELSE IF \A p \in Range(politicians) : p.id # Numerals[response.id]
         THEN response.status = 404
         ELSE response.status = 200

(***************************************************************************)
(* C23 (as claimed): the conflicts endpoint works with exactly the days    *)
(* value of the request for every non-negative integer, 0 included, for    *)
(* which only pairs with delta_days = 0 are returned; 30 is used only when *)
(* days is absent.                                                         *)
(***************************************************************************)
SuppliedWindow ==
  IF response.days = Null THEN DefaultDays ELSE Numerals[response.days]

C23_SuppliedWindowUsed ==
  (IsConflictsOk /\ response.days \in {Null} \cup DOMAIN Numerals) =>
    /\ \A k \in DOMAIN response.body :
         response.body[k].delta_days <= SuppliedWindow
    /\ \A pair \in SameBillPairs :
         TickDistance(pair) <= SuppliedWindow * TicksPerDay
           => <<pair[1].id, pair[2].id>> \in ReturnedPairs

(***************************************************************************)
(* Pipeline runs: what the status endpoint would answer for a run, and the *)
(* two places its status is kept.                                          *)
(***************************************************************************)
TerminalStatuses == {"completed", "failed"}

ReportedStatus(pipelineId) ==
  IF StatusResponse(pipelineId).status = 200
  THEN StatusResponse(pipelineId).body
  ELSE "not found"

\* the pipeline_runs rows of a run
RowsOfRun(pipelineId) ==
  {k \in DOMAIN pipelineRuns : pipelineRuns[k].notes.id = pipelineId}

(***************************************************************************)
(* C24 (as claimed): every run a trigger handler has started leaves        *)
(* 'running': with its background task scheduled and its import returning  *)
(* or throwing, the status the status endpoint reports for its id is       *)
(* eventually 'completed' or 'failed'.                                     *)
(***************************************************************************)
C24_EventuallyTerminal ==
  \A id \in PipelineIds :
    (id \in DOMAIN tasks) ~> (ReportedStatus(id) \in TerminalStatuses)

(***************************************************************************)
(* C25 (as claimed): whenever the activePipelines entry of a run has       *)
(* status 'completed' or 'failed', the pipeline_runs row of the run has    *)
(* the same status.                                                        *)
(***************************************************************************)
C25_PersistedStatusAgrees ==
  \A id \in DOMAIN activePipelines :
    activePipelines[id].status \in TerminalStatuses =>
      /\ RowsOfRun(id) # {}
      /\ \A k \in RowsOfRun(id) :
           pipelineRuns[k].status = activePipelines[id].status

(***************************************************************************)
(* C26: the status of a run is monotone: the activePipelines entry and the *)
(* pipeline_runs row both start as 'running', neither changes once it is   *)
(* 'completed' or 'failed', and progress is 1 wherever the status is       *)
(* 'completed'.                                                            *)
(***************************************************************************)
CompletedHasFullProgress ==
  /\ \A id \in DOMAIN activePipelines :
       activePipelines[id].status = "completed" =>
         activePipelines[id].progress = 1
  /\ \A k \in DOMAIN pipelineRuns :
       pipelineRuns[k].status = "completed" =>
         /\ "progress" \in DOMAIN pipelineRuns[k].notes
         /\ pipelineRuns[k].notes.progress = 1

StartsRunning ==
  /\ \A id \in DOMAIN activePipelines' :
       id \notin DOMAIN activePipelines =>
         activePipelines'[id].status = "running"
  /\ \A k \in DOMAIN pipelineRuns' :
       k \notin DOMAIN pipelineRuns => pipelineRuns'[k].status = "running"

TerminalStays ==
  /\ \A id \in DOMAIN activePipelines \cap DOMAIN activePipelines' :
       activePipelines[id].status \in TerminalStatuses =>
         activePipelines'[id].status = activePipelines[id].status
  /\ \A k \in DOMAIN pipelineRuns :
       pipelineRuns[k].status \in TerminalStatuses =>
         /\ k \in DOMAIN pipelineRuns'
         /\ pipelineRuns'[k].status = pipelineRuns[k].status

C26_StatusMonotone ==
  /\ []CompletedHasFullProgress
  /\ [][StartsRunning /\ TerminalStays]_vars

\* a run whose task is over and whose completion the status endpoint has
\* reported from memory
C26_Witness ==
  /\ response.route = "GET /api/pipelines/:id/status"
  /\ response.status = 200
  /\ response.body = "completed"
  /\ response.progress = 1
  /\ response.id \in DOMAIN tasks
  /\ tasks[response.id].pc = "done"

(***************************************************************************)
(* C27: a status query for an id that a trigger handler has returned is    *)
(* never answered 404, wherever the background task of the run is; a       *)
(* trigger whose run record is not created answers with an error and no    *)
(* pipelineId, and no task is started without its record.                  *)
(***************************************************************************)
C27_ReturnedRunIsFound ==
  /\ (response.route = "GET /api/pipelines/:id/status"
        /\ response.id \in DOMAIN tasks) => response.status # 404
  /\ (response.route = "POST /api/pipelines/:type" /\ response.status = 500)
        => "pipelineId" \notin DOMAIN response
  /\ (response.route = "POST /api/pipelines/:type" /\ response.status = 200)
        => response.pipelineId \in DOMAIN tasks
  /\ \A id \in DOMAIN tasks : RowsOfRun(id) # {}
  /\ Cardinality(DOMAIN tasks) = Len(pipelineRuns)

\* the run is found in the table, after the first status update of its task
\* and the loss of the in-memory entry
C27_Witness ==
  /\ response.route = "GET /api/pipelines/:id/status"
  /\ response.status = 200
  /\ response.from = "database"
  /\ response.id \in DOMAIN tasks
  /\ \E k \in RowsOfRun(response.id) :
       "progress" \in DOMAIN pipelineRuns[k].notes

(***************************************************************************)
(* C28 (as claimed): when no run of importPoliticiansFromFec is under way, *)
(* runs in which a database write failed included, every politician row    *)
(* has exactly one ('fec', candidate_id) alias row pointing to it, and no   *)
(* candidate has been created twice.                                       *)
(***************************************************************************)
OwnAliasRows(p) ==
  {k \in DOMAIN politicianAliases :
     /\ politicianAliases[k].politicianId = p.id
     /\ politicianAliases[k].source = "fec"
     /\ politicianAliases[k].externalId = p.fecCandidateId}

C28_CreatedHasOneAlias ==
  Quiescent =>
    \A p \in Range(politicians) :
      /\ Cardinality(OwnAliasRows(p)) = 1
      /\ Cardinality(PoliticianRowsOf(p.fecCandidateId)) = 1

(***************************************************************************)
(* C29 (as claimed): a client that has asked for pages 1, 2, ... until     *)
(* next_page was null has received every item that existed before its      *)
(* first request, whatever was inserted between its requests.              *)
(***************************************************************************)
ReceivedUids ==
  UNION {Range(timelineQuery.pages[k]) : k \in DOMAIN timelineQuery.pages}

C29_NoItemSkipped ==
  timelineQuery.status = "complete" => existedBefore \subseteq ReceivedUids

(***************************************************************************)
(* C30 (as claimed): the result of generateNetworkData never has more than *)
(* maxNodes nodes, and the source and the target of every link are ids of  *)
(* nodes of the same result.                                               *)
(***************************************************************************)
IsNetworkDataOk ==
  response.route = "GET /api/network" /\ response.status = 200

MaxNodesOfResponse ==
  IF response.max_nodes = Null THEN DefaultMaxNodes
  ELSE Numerals[response.max_nodes]

NodeIdsOfResponse == {response.nodes[k].id : k \in DOMAIN response.nodes}

C30_MaxNodesAndLinksClosed ==
  IsNetworkDataOk =>
    /\ response.max_nodes \in {Null} \cup DOMAIN Numerals
         => Len(response.nodes) <= MaxNodesOfResponse
    /\ \A k \in DOMAIN response.links :
         /\ response.links[k].source \in NodeIdsOfResponse
         /\ response.links[k].target \in NodeIdsOfResponse

====
